---- MODULE Spec2Model ----
(***************************************************************************)
(* arglib: abstract argumentation (DungAF), assumption-based reduction     *)
(* (ABAFramework), warrant-gated credibility and the critique engine.      *)
(* Each component is a state machine over its own variables; the           *)
(* specifications (SpecDung, SpecLabel, SpecABA, SpecGate, ...) run one    *)
(* component each and leave the others in their initial state.             *)
(***************************************************************************)
EXTENDS Integers, Sequences, FiniteSets, TLC

\* ------------------------------------------------------------- bounds
\* how many distinct argument names a DungAF is built from
MaxArgs == 3
\* how many attacks a DungAF built by add_attack holds
MaxAttacks == 4
\* how many rules an ABAFramework holds
MaxRules == 2
\* largest max_assumption_set_size passed to to_dung
MaxSetSize == 3
\* how many relations an ArgumentGraph built by add_relation holds
MaxRelations == 2
\* how many evidence items are attached to one claim
MaxEvidence == 2
\* how many claims an ArgumentGraph with allocated ids holds
MaxUnits == 3
\* largest max_depth passed to build_dispute_tree
MaxDepth == 3
\* how many relations a graph handed to diagnostics() holds
MaxEdges == 4
\* largest max_iterations a credibility run is configured with
MaxIterations == 2

VARIABLES
    arguments,      \* DungAF.arguments : set[str]
    attacks,        \* DungAF.attacks   : set[tuple[str, str]]
    arg_iter,       \* iteration order of the set `arguments` (list(items)),
                    \* <<"?">> while no iteration has observed it yet
    labels,         \* labelings(): the local dict `labels`
    lab_pc,         \* labelings(): position in the method
    lab_i,          \* labelings(): index into sorted(self.arguments)
    lab_changed,    \* labelings(): the local flag `changed`
    lab_rounds,     \* labelings(): number of while-iterations started
    assumptions,    \* ABAFramework.assumptions : set[str]
    contraries,     \* ABAFramework.contraries  : dict[str, str]
    rules,          \* ABAFramework.rules       : list[Rule]
    aba_out,        \* the last call on the framework and what it returned
    units,          \* ArgumentGraph.units : dict[str, ArgumentUnit], as the
                    \* list of its values in insertion order
    warrants,       \* ArgumentGraph.warrants : dict[str, Warrant]
    relations,      \* ArgumentGraph.relations : list[Relation]
    warrant_attacks,\* ArgumentGraph.warrant_attacks : list[WarrantAttack]
    evidence_cards, \* ArgumentGraph.evidence_cards : dict[str, EvidenceCard]
    supporting_documents,
                    \* ArgumentGraph.supporting_documents : dict[str, SupportingDocument]
    argument_bundles,
                    \* ArgumentGraph.argument_bundles : dict[str, ArgumentBundle]
    restored,       \* a second graph, restored = ArgumentGraph.from_dict(graph.to_dict()):
                    \* << >> before the call, <<graph>> after it
    graph_out       \* the last call on the graph and what it returned

dungVars == <<arguments, attacks, arg_iter>>
labelVars == <<labels, lab_pc, lab_i, lab_changed, lab_rounds>>
abaVars == <<assumptions, contraries, rules, aba_out>>
evidenceVars == <<evidence_cards, supporting_documents>>
copyVars == <<argument_bundles, restored>>
graphVars ==
    <<units, warrants, relations, warrant_attacks, evidenceVars, copyVars, graph_out>>
vars == <<dungVars, labelVars, abaVars, graphVars>>

\* what an action of one component leaves alone
outsideDung == <<abaVars, graphVars>>
outsideABA == <<dungVars, labelVars, graphVars>>
outsideGraph == <<dungVars, labelVars, abaVars>>

\* ------------------------------------------------------------- names
\* Symbols are single lower-case letters; the reduction also makes composite
\* labels such as "{a&b}".  Python orders strings by code point.
Letters == <<"a", "b", "c", "d", "e", "p", "q", "r">>

PlainNames == {Letters[i] : i \in 1..Len(Letters)}

CodePoint(ch) ==
    CASE ch = "&" -> 38
      [] ch \in {"0", "1", "2", "3", "4", "5", "6", "7", "8", "9"}
           -> 48 + (CHOOSE d \in 0..9 : ch = <<"0", "1", "2", "3", "4", "5", "6", "7", "8", "9">>[d + 1])
      [] ch = "a" -> 97
      [] ch = "b" -> 98
      [] ch = "c" -> 99
      [] ch = "d" -> 100
      [] ch = "e" -> 101
      [] ch = "p" -> 112
      [] ch = "q" -> 113
      [] ch = "r" -> 114
      [] ch = "w" -> 119
      [] ch = "{" -> 123
      [] ch = "}" -> 125

ArgNames == {Letters[i] : i \in 1..MaxArgs}

\* the symbols callers pass to an ABAFramework
AssumptionNames == {"a", "b", "c"}

Symbols == {"a", "b", "c", "p", "q"}

RECURSIVE SetToSeqs(_)
\* all orders in which the elements of a set can be listed
SetToSeqs(S) ==
    IF S = {} THEN {<<>>}
    ELSE UNION {{<<x>> \o t : t \in SetToSeqs(S \ {x})} : x \in S}

SeqRange(s) == {s[i] : i \in 1..Len(s)}

RECURSIVE SeqMin(_)
SeqMin(s) ==
    IF Len(s) = 1 THEN s[1]
    ELSE LET m == SeqMin(Tail(s)) IN IF s[1] <= m THEN s[1] ELSE m

RECURSIVE StrConcat(_)
\* the string made of a sequence of characters
StrConcat(chars) ==
    IF chars = << >> THEN "" ELSE Head(chars) \o StrConcat(Tail(chars))

RECURSIVE JoinChars(_, _)
\* the characters of sep.join(parts) for one-character parts
JoinChars(parts, sep) ==
    IF Len(parts) = 0 THEN << >>
    ELSE IF Len(parts) = 1 THEN <<parts[1]>>
    ELSE <<parts[1], sep>> \o JoinChars(Tail(parts), sep)

\* the characters of f"{{{'&'.join(assumptions)}}}"
CompositeChars(members) == <<"{">> \o JoinChars(members, "&") \o <<"}">>

\* _format_assumption_set(assumptions)
_format_assumption_set(members) ==
    IF Len(members) = 1 THEN members[1]
    ELSE StrConcat(CompositeChars(members))

RECURSIVE TuplesOver(_, _)
\* all tuples of length n over a set
TuplesOver(S, n) ==
    IF n = 0 THEN {<< >>}
    ELSE {<<x>> \o t : x \in S, t \in TuplesOver(S, n - 1)}

DigitChars == <<"0", "1", "2", "3", "4", "5", "6", "7", "8", "9">>

DecimalChars == SeqRange(DigitChars)

\* str.isdigit also accepts digits that are not decimal, such as the
\* superscript two; int() accepts decimal digits only
DigitLikeChars == DecimalChars \cup {"^2"}

DigitValue(ch) == (CHOOSE i \in 1..Len(DigitChars) : DigitChars[i] = ch) - 1

RECURSIVE str_of_int(_)
\* str(index) for index >= 0
str_of_int(n) ==
    IF n < 10 THEN <<DigitChars[n + 1]>>
    ELSE str_of_int(n \div 10) \o <<DigitChars[(n % 10) + 1]>>

startswith(chars, prefix) == Len(chars) >= 1 /\ chars[1] = prefix

isdigit(chars) ==
    Len(chars) >= 1 /\ \A i \in 1..Len(chars) : chars[i] \in DigitLikeChars

RECURSIVE int_of_str(_)
\* int(suffix) for a suffix of decimal digits; leading zeros are accepted
int_of_str(chars) ==
    IF chars = << >> THEN 0
    ELSE 10 * int_of_str(SubSeq(chars, 1, Len(chars) - 1))
            + DigitValue(chars[Len(chars)])

\* int(suffix) raises ValueError
int_raises(chars) == \E i \in 1..Len(chars) : chars[i] \notin DecimalChars

\* the spellings of the ids in use: f"{prefix}{n}", and "c02" of a caller's
IdSpellings ==
    {<<prefix>> \o str_of_int(n) : prefix \in {"c", "w"}, n \in 1..(MaxUnits + 2)}
        \cup {<<"c", "0", "2">>}

\* the ids of the claims of an ArgumentGraph, spelled out
UnitIdChars ==
    [id \in {StrConcat(chars) : chars \in IdSpellings} |->
        CHOOSE chars \in IdSpellings : StrConcat(chars) = id]

\* the characters of a name: a plain symbol is one character, a claim id is
\* spelled out, a composite label is read back from the member tuples that
\* format to it
CharsOf(name) ==
    IF name \in PlainNames THEN <<name>>
    ELSE IF name \in DOMAIN UnitIdChars THEN UnitIdChars[name]
    ELSE LET members ==
                 CHOOSE t \in UNION {TuplesOver(AssumptionNames, n) :
                                      n \in 2..Cardinality(AssumptionNames)} :
                     StrConcat(CompositeChars(t)) = name
         IN  CompositeChars(members)

RECURSIVE CharsLess(_, _)
\* Python's str "<": lexicographic by code point, a proper prefix first
CharsLess(x, y) ==
    IF Len(y) = 0 THEN FALSE
    ELSE IF Len(x) = 0 THEN TRUE
    ELSE IF CodePoint(Head(x)) # CodePoint(Head(y))
         THEN CodePoint(Head(x)) < CodePoint(Head(y))
    ELSE CharsLess(Tail(x), Tail(y))

StrLess(x, y) == CharsLess(CharsOf(x), CharsOf(y))

RECURSIVE sorted(_)
\* sorted(S) for a set of names
sorted(S) ==
    IF S = {} THEN << >>
    ELSE LET m == CHOOSE x \in S : \A y \in S \ {x} : StrLess(x, y)
         IN  <<m>> \o sorted(S \ {m})

\* ------------------------------------------------------------- DungAF
\* A framework value: the two fields of the dataclass plus the order in which
\* iterating the set `arguments` yields its members.
AF(args, atts, iter) == [arguments |-> args, attacks |-> atts, iter |-> iter]

attackers_of(af, arg) == {p[1] : p \in {q \in af.attacks : q[2] = arg}}

attacks_from(af, arg) == {p[2] : p \in {q \in af.attacks : q[1] = arg}}

conflict_free(af, ext) == \A a \in ext : \A b \in ext : <<a, b>> \notin af.attacks

defends(af, ext, arg) ==
    LET attackers == attackers_of(af, arg)
        defended_attackers ==
            {attacker \in attackers :
                \E defender \in ext : <<defender, attacker>> \in af.attacks}
    IN  IF attackers = {} THEN TRUE ELSE attackers = defended_attackers

RECURSIVE combinations(_, _)
\* itertools.combinations(items, r): r-length tuples in the order of `items`
combinations(items, r) ==
    IF r = 0 THEN << <<>> >>
    ELSE IF Len(items) < r THEN << >>
    ELSE LET withHead == combinations(Tail(items), r - 1)
             rest == combinations(Tail(items), r)
         IN  [i \in 1..Len(withHead) |-> <<Head(items)>> \o withHead[i]] \o rest

RECURSIVE chain_combinations(_, _)
chain_combinations(items, r) ==
    IF r > Len(items) THEN << >>
    ELSE combinations(items, r) \o chain_combinations(items, r + 1)

_powerset(items) == chain_combinations(items, 0)

admissible_sets(af) ==
    LET ps == _powerset(af.iter)
        ok(ext) == conflict_free(af, SeqRange(ext))
                   /\ \A arg \in SeqRange(ext) : defends(af, SeqRange(ext), arg)
        kept == SelectSeq(ps, ok)
    IN  [i \in 1..Len(kept) |-> SeqRange(kept[i])]

complete_extensions(af) ==
    LET ok(ext) == {arg \in af.arguments : defends(af, ext, arg)} = ext
    IN  SelectSeq(admissible_sets(af), ok)

RECURSIVE set_intersection(_)
set_intersection(sets) ==
    IF Len(sets) = 1 THEN sets[1]
    ELSE sets[1] \cap set_intersection(Tail(sets))

RECURSIVE set_union(_)
set_union(sets) ==
    IF Len(sets) = 1 THEN sets[1]
    ELSE sets[1] \cup set_union(Tail(sets))

\* grounded_extension joining the complete extensions instead of meeting them
grounded_extension_union(af) ==
    LET complete == complete_extensions(af)
    IN  IF Len(complete) = 0 THEN {} ELSE set_union(complete)

grounded_extension(af) ==
    LET complete == complete_extensions(af)
    IN  IF Len(complete) = 0 THEN {} ELSE set_intersection(complete)

preferred_extensions(af) ==
    LET admissible == admissible_sets(af)
        ok(candidate) ==
            ~ \E i \in 1..Len(admissible) :
                candidate \subseteq admissible[i] /\ candidate # admissible[i]
    IN  SelectSeq(admissible, ok)

\* stable_extensions with "attacked <= complement" in place of "=="
stable_extensions_subset(af) ==
    LET ps == _powerset(af.iter)
        ok(ext) ==
            LET ext_set == SeqRange(ext)
                attacked == UNION {attacks_from(af, arg) : arg \in ext_set}
            IN  conflict_free(af, ext_set) /\ attacked \subseteq af.arguments \ ext_set
        kept == SelectSeq(ps, ok)
    IN  [i \in 1..Len(kept) |-> SeqRange(kept[i])]

stable_extensions(af) ==
    LET ps == _powerset(af.iter)
        ok(ext) ==
            LET ext_set == SeqRange(ext)
                attacked == UNION {attacks_from(af, arg) : arg \in ext_set}
            IN  conflict_free(af, ext_set) /\ attacked = af.arguments \ ext_set
        kept == SelectSeq(ps, ok)
    IN  [i \in 1..Len(kept) |-> SeqRange(kept[i])]

\* str.lower() on the semantics names callers pass
Lower(s) ==
    CASE s = "Grounded" -> "grounded"
      [] s = "Preferred" -> "preferred"
      [] s = "STABLE" -> "stable"
      [] s = "Complete" -> "complete"
      [] OTHER -> s

\* extensions(semantics): [raised |-> FALSE, value |-> list] or the ValueError
extensions(af, semantics) ==
    LET sem == Lower(semantics)
    IN  CASE sem = "grounded" ->
                [raised |-> FALSE, value |-> <<grounded_extension(af)>>]
          [] sem = "preferred" ->
                [raised |-> FALSE, value |-> preferred_extensions(af)]
          [] sem = "stable" ->
                [raised |-> FALSE, value |-> stable_extensions(af)]
          [] sem = "complete" ->
                [raised |-> FALSE, value |-> complete_extensions(af)]
          [] OTHER -> [raised |-> TRUE, value |-> "ValueError"]

\* the framework held in the state
Unobserved == <<"?">>

SelfAF == AF(arguments, attacks, arg_iter)

NoCall == [op |-> "none"]

\* State after construction: DungAF(), ABAFramework() and ArgumentGraph()
\* with empty fields, no call in progress.
Init ==
    /\ arguments = {}
    /\ attacks = {}
    /\ arg_iter = Unobserved
    /\ labels = << >>
    /\ lab_pc = "idle"
    /\ lab_i = 0
    /\ lab_changed = FALSE
    /\ lab_rounds = 0
    /\ assumptions = {}
    /\ contraries = << >>
    /\ rules = << >>
    /\ aba_out = NoCall
    /\ units = << >>
    /\ warrants = << >>
    /\ relations = << >>
    /\ warrant_attacks = << >>
    /\ evidence_cards = << >>
    /\ supporting_documents = << >>
    /\ argument_bundles = << >>
    /\ restored = << >>
    /\ graph_out = NoCall

\* add_argument(arg): set.add; the iteration order of a changed set is
\* whatever the hash table gives, unknown until the set is iterated again
add_argument(arg) ==
    /\ lab_pc = "idle"
    /\ arguments' = arguments \cup {arg}
    /\ arg_iter' = IF arg \in arguments THEN arg_iter ELSE Unobserved
    /\ UNCHANGED attacks

add_attack(attacker, target) ==
    /\ lab_pc = "idle"
    /\ Cardinality(attacks \cup {<<attacker, target>>}) <= MaxAttacks
    /\ arguments' = arguments \cup {attacker, target}
    /\ attacks' = attacks \cup {<<attacker, target>>}
    /\ arg_iter' = IF {attacker, target} \subseteq arguments
                   THEN arg_iter ELSE Unobserved

\* list(items) in _powerset: the first iteration after a change fixes the
\* order every later iteration of the unchanged set repeats
iterate_arguments ==
    /\ lab_pc = "idle"
    /\ arg_iter = Unobserved
    /\ arg_iter' \in SetToSeqs(arguments)
    /\ UNCHANGED <<arguments, attacks>>

\* ------------------------------------------------------------- labelings
LabelSemantics == {"grounded", "Grounded", "preferred"}

\* lines 99-104: lower-case the name, refuse anything but grounded, start
labelings_start(semantics) ==
    /\ lab_pc = "idle"
    /\ IF Lower(semantics) # "grounded"
       THEN /\ lab_pc' = "raised"
            /\ UNCHANGED <<labels, lab_i, lab_changed, lab_rounds>>
       ELSE /\ labels' = [arg \in arguments |-> "undec"]
            /\ lab_changed' = TRUE
            /\ lab_pc' = "while"
            /\ lab_i' = 0
            /\ lab_rounds' = 0
    /\ UNCHANGED dungVars

\* line 105-106: while changed: changed = False
labelings_while ==
    /\ lab_pc = "while"
    /\ IF lab_changed
       THEN /\ lab_changed' = FALSE
            /\ lab_pc' = "in_loop"
            /\ lab_i' = 1
            /\ lab_rounds' = lab_rounds + 1
       ELSE /\ lab_pc' = "done"
            /\ UNCHANGED <<lab_changed, lab_i, lab_rounds>>
    /\ UNCHANGED <<labels, dungVars>>

\* lines 111-113 with any() where the code has all()
in_condition_any(lbls, attackers) ==
    attackers = {} \/ \E attacker \in attackers : lbls[attacker] = "out"

\* lines 111-113: no attackers, or every attacker is labelled out
in_condition(lbls, attackers) ==
    attackers = {} \/ \A attacker \in attackers : lbls[attacker] = "out"

\* lines 107-115: one iteration of the first for-loop
labelings_in_step ==
    /\ lab_pc = "in_loop"
    /\ LET order == sorted(arguments)
       IN  IF lab_i > Len(order)
           THEN /\ lab_pc' = "out_loop"
                /\ lab_i' = 1
                /\ UNCHANGED <<labels, lab_changed>>
           ELSE LET arg == order[lab_i]
                    attackers == attackers_of(SelfAF, arg)
                IN  /\ lab_i' = lab_i + 1
                    /\ lab_pc' = lab_pc
                    /\ IF labels[arg] # "undec"
                       THEN UNCHANGED <<labels, lab_changed>>
                       ELSE IF in_condition(labels, attackers)
                       THEN /\ labels' = [labels EXCEPT ![arg] = "in"]
                            /\ lab_changed' = TRUE
                       ELSE UNCHANGED <<labels, lab_changed>>
    /\ UNCHANGED <<lab_rounds, dungVars>>

\* lines 116-121: one iteration of the second for-loop
labelings_out_step ==
    /\ lab_pc = "out_loop"
    /\ LET order == sorted(arguments)
       IN  IF lab_i > Len(order)
           THEN /\ lab_pc' = "while"
                /\ lab_i' = 0
                /\ UNCHANGED <<labels, lab_changed>>
           ELSE LET arg == order[lab_i]
                IN  /\ lab_i' = lab_i + 1
                    /\ lab_pc' = lab_pc
                    /\ IF labels[arg] # "undec"
                       THEN UNCHANGED <<labels, lab_changed>>
                       ELSE IF \E attacker \in attackers_of(SelfAF, arg) :
                                  labels[attacker] = "in"
                       THEN /\ labels' = [labels EXCEPT ![arg] = "out"]
                            /\ lab_changed' = TRUE
                       ELSE UNCHANGED <<labels, lab_changed>>
    /\ UNCHANGED <<lab_rounds, dungVars>>

\* line 122 (return [labels]) or the raise of line 101: the call is over
labelings_return ==
    /\ lab_pc \in {"done", "raised"}
    /\ lab_pc' = "idle"
    /\ labels' = << >>
    /\ lab_i' = 0
    /\ lab_changed' = FALSE
    /\ lab_rounds' = 0
    /\ UNCHANGED dungVars

\* ------------------------------------------------------------- ABAFramework
Rule(head, body) == [head |-> head, body |-> body]

\* add_assumption / add_contrary / add_rule; a result held by the caller is
\* dropped when the framework is changed
add_assumption(assumption) ==
    /\ assumptions' = assumptions \cup {assumption}
    /\ aba_out' = NoCall
    /\ UNCHANGED <<contraries, rules>>

add_contrary(assumption, contrary) ==
    /\ contraries' =
          [k \in DOMAIN contraries \cup {assumption} |->
              IF k = assumption THEN contrary ELSE contraries[k]]
    /\ aba_out' = NoCall
    /\ UNCHANGED <<assumptions, rules>>

add_rule(head, body) ==
    /\ rules' = Append(rules, Rule(head, body))
    /\ aba_out' = NoCall
    /\ UNCHANGED <<assumptions, contraries>>

RECURSIVE derive_for_any(_, _, _)
\* derive_for with any() where the code has all()
derive_for_any(rls, derived, changed) ==
    IF rls = << >> THEN [derived |-> derived, changed |-> changed]
    ELSE LET rule == Head(rls)
         IN  IF rule.head \in derived
             THEN derive_for_any(Tail(rls), derived, changed)
             ELSE IF \E i \in 1..Len(rule.body) : rule.body[i] \in derived
             THEN derive_for_any(Tail(rls), derived \cup {rule.head}, TRUE)
             ELSE derive_for_any(Tail(rls), derived, changed)

RECURSIVE derive_for(_, _, _)
\* lines 37-42: one pass of "for rule in self.rules"
derive_for(rls, derived, changed) ==
    IF rls = << >> THEN [derived |-> derived, changed |-> changed]
    ELSE LET rule == Head(rls)
         IN  IF rule.head \in derived
             THEN derive_for(Tail(rls), derived, changed)
             ELSE IF \A i \in 1..Len(rule.body) : rule.body[i] \in derived
             THEN derive_for(Tail(rls), derived \cup {rule.head}, TRUE)
             ELSE derive_for(Tail(rls), derived, changed)

RECURSIVE derive_while(_, _, _)
\* lines 35-42: "while changed", counting the passes made
derive_while(rls, derived, passes) ==
    LET pass == derive_for(rls, derived, FALSE)
    IN  IF pass.changed
        THEN derive_while(rls, pass.derived, passes + 1)
        ELSE [derived |-> pass.derived, passes |-> passes + 1]

\* _derive(premises) on a rule list
_derive(rls, premises) == derive_while(rls, premises, 0).derived

\* _assumption_sets with range(1, max_size) in place of range(1, max_size + 1)
_assumption_sets_exclusive(asms, max_size) ==
    IF max_size < 1 THEN << >>
    ELSE LET sorted_assumptions == sorted(asms)
             RECURSIVE extend(_)
             extend(size) ==
                 IF size >= max_size \/ size > Len(sorted_assumptions) THEN << >>
                 ELSE combinations(sorted_assumptions, size) \o extend(size + 1)
         IN  extend(1)

\* _assumption_sets(max_size)
_assumption_sets(asms, max_size) ==
    IF max_size < 1 THEN << >>
    ELSE LET sorted_assumptions == sorted(asms)
             upto == IF max_size < Len(sorted_assumptions)
                     THEN max_size ELSE Len(sorted_assumptions)
             RECURSIVE extend(_)
             extend(size) ==
                 IF size > upto THEN << >>
                 ELSE combinations(sorted_assumptions, size) \o extend(size + 1)
         IN  extend(1)

\* to_dung(max_assumption_set_size) on the framework (asms, ctrs, rls); the
\* returned DungAF has not been iterated yet
to_dung_of(asms, ctrs, rls, max_assumption_set_size) ==
    LET assumption_sets == _assumption_sets(asms, max_assumption_set_size)
        hits ==
            {<<i, target>> \in (1..Len(assumption_sets)) \X (DOMAIN ctrs) :
                ctrs[target] \in _derive(rls, SeqRange(assumption_sets[i]))}
        af_attacks ==
            {<<_format_assumption_set(assumption_sets[h[1]]), h[2]>> : h \in hits}
    IN  AF(asms \cup {p[1] : p \in af_attacks} \cup {p[2] : p \in af_attacks},
           af_attacks, Unobserved)

to_dung(max_assumption_set_size) ==
    to_dung_of(assumptions, contraries, rules, max_assumption_set_size)

DefaultSetSize == 2

\* the inputs the callers of the model pass
ContraryValues == {"b", "p"}

RulePool ==
    {Rule("p", <<"a">>), Rule("p", <<"a", "b">>), Rule("q", <<"p">>),
     Rule("q", << >>), Rule("p", <<"q">>)}

ComputeSemantics ==
    {"grounded", "preferred", "stable", "complete", "STABLE", "semi-stable"}

\* a call of to_dung(k), the returned framework kept by the caller (one
\* result is held at a time: a new call is made once the last is dropped)
to_dung_call(k) ==
    /\ aba_out = NoCall
    /\ aba_out' = [op |-> "to_dung", k |-> k, af |-> to_dung(k)]
    /\ UNCHANGED <<assumptions, contraries, rules>>

\* a call of _derive(premises)
derive_call(premises) ==
    /\ aba_out = NoCall
    /\ aba_out' = [op |-> "derive", premises |-> premises,
                   result |-> derive_while(rules, premises, 0)]
    /\ UNCHANGED <<assumptions, contraries, rules>>

\* the lists a list of sets can be when the sets come out of _powerset under
\* another iteration order of the arguments: combinations are produced by
\* size, so only sets of equal size can change places
list_orders(sets) ==
    {o \in SetToSeqs(SeqRange(sets)) :
        \A i \in 1..Len(o) : \A j \in 1..Len(o) :
            i < j => Cardinality(o[i]) <= Cardinality(o[j])}

RECURSIVE Reversed(_)
Reversed(s) == IF s = << >> THEN << >> ELSE Reversed(Tail(s)) \o <<Head(s)>>

\* lines 73-76 with each extension listed in descending order
compute_extensions_descending(res) ==
    IF res.raised THEN {<< >>}
    ELSE {[i \in 1..Len(o) |-> Reversed(sorted(o[i]))] : o \in list_orders(res.value)}

\* lines 73-76: [sorted(ext) for ext in af.extensions(semantics)], or [] when
\* extensions() raises ValueError; one list per iteration order of the
\* arguments of the framework to_dung() built
compute_extensions(res) ==
    IF res.raised THEN {<< >>}
    ELSE {[i \in 1..Len(o) |-> sorted(o[i])] : o \in list_orders(res.value)}

\* compute(semantics); the constant "note" of the result is left out
compute(semantics) ==
    LET af0 == to_dung(DefaultSetSize)
        af == AF(af0.arguments, af0.attacks, sorted(af0.arguments))
    IN  /\ aba_out = NoCall
        /\ \E exts \in compute_extensions(extensions(af, semantics)) :
              aba_out' =
                  [op |-> "compute",
                   result |-> [semantics |-> semantics,
                               assumptions |-> sorted(assumptions),
                               contraries |-> contraries,
                               rules |-> rules,
                               extensions |-> exts]]
        /\ UNCHANGED <<assumptions, contraries, rules>>

\* af = aba.to_dung(): the DungAF built by to_dung() with its default size
\* is the framework the Dung engine then works on
to_dung_af ==
    LET af == to_dung(DefaultSetSize)
    IN  /\ aba_out = NoCall
        /\ lab_pc = "idle"
        /\ aba_out' = [op |-> "to_dung", k |-> DefaultSetSize, af |-> af]
        /\ arguments' = af.arguments
        /\ attacks' = af.attacks
        /\ arg_iter' = af.iter
        /\ UNCHANGED <<assumptions, contraries, rules>>

\* the keys and values add_contrary is called with, and the rules, where
\* sets of two assumptions attack
CompositeContraryKeys == AssumptionNames \cup {"{a&b}"}

CompositeContraryValues == {"c", "p"}

CompositeRulePool == {Rule("p", <<"a", "b">>)}

\* ------------------------------------------------------------- dispute trees
\* semantics/aba/dispute_trees.py
DisputeTreeNode(claim, role, children) ==
    [claim |-> claim, role |-> role, children |-> children]

\* _attackers with the list in descending order
_attackers_descending(ctrs, target) ==
    Reversed(sorted({assumption \in DOMAIN ctrs : ctrs[assumption] = target}))

_attackers(ctrs, target) ==
    sorted({assumption \in DOMAIN ctrs : ctrs[assumption] = target})

\* af = aba.to_dung(): the framework of the unchanged aba, the same at every
\* call made while one tree is built
_defenders(aba, target) ==
    LET af == aba.to_dung
        attackers == {p[1] : p \in {q \in af.attacks : q[2] = target}}
        defenders == {p[1] : p \in {q \in af.attacks : q[2] \in attackers}}
    IN  sorted(defenders)

RECURSIVE _expand(_, _, _, _, _, _)
RECURSIVE expand_children(_, _, _, _, _, _)
\* _expand(aba, claim, role, max_depth, depth, seen): the node built and the
\* set `seen` as the call leaves it; `seen` is one set for the whole tree
_expand(aba, claim, role, max_depth, depth, seen) ==
    IF depth >= max_depth \/ <<claim, role>> \in seen
    THEN [node |-> DisputeTreeNode(claim, role, << >>), seen |-> seen]
    ELSE LET claims == IF role = "pro" THEN _attackers(aba.contraries, claim)
                       ELSE _defenders(aba, claim)
             done == expand_children(aba, claims,
                                     IF role = "pro" THEN "con" ELSE "pro",
                                     max_depth, depth + 1,
                                     seen \cup {<<claim, role>>})
         IN  [node |-> DisputeTreeNode(claim, role, done.children), seen |-> done.seen]

\* the list comprehension over attackers or defenders, left to right
expand_children(aba, claims, role, max_depth, depth, seen) ==
    IF claims = << >> THEN [children |-> << >>, seen |-> seen]
    ELSE LET first == _expand(aba, claims[1], role, max_depth, depth, seen)
             rest == expand_children(aba, Tail(claims), role, max_depth, depth,
                                     first.seen)
         IN  [children |-> <<first.node>> \o rest.children, seen |-> rest.seen]

\* build_dispute_tree starting one level above the root
build_dispute_tree_from_minus_one(aba, root, max_depth) ==
    _expand(aba, root, "pro", max_depth, 0 - 1, {}).node

build_dispute_tree(aba, root, max_depth) ==
    _expand(aba, root, "pro", max_depth, 0, {}).node

SelfABA ==
    [assumptions |-> assumptions, contraries |-> contraries, rules |-> rules,
     to_dung |-> to_dung_of(assumptions, contraries, rules, DefaultSetSize)]

\* the claims a tree is asked for and the contraries of its framework
TreeRoots == {"a", "c", "p"}

TreeContraryValues == {"a", "c"}

TreeRulePool == {Rule("c", <<"b">>)}

\* tree = build_dispute_tree(aba, root, max_depth=max_depth)
build_dispute_tree_call(root, max_depth) ==
    /\ aba_out = NoCall
    /\ aba_out' = [op |-> "build_dispute_tree", root |-> root,
                   max_depth |-> max_depth,
                   tree |-> build_dispute_tree(SelfABA, root, max_depth)]
    /\ UNCHANGED <<assumptions, contraries, rules>>

\* ------------------------------------------------------------- ArgumentGraph
\* core/graph.py, core/relations.py, core/units.py, core/warrants.py.
\* A float score is held as an integer number of ten-thousandths.
Scale == 10000

\* Optional[float]: << >> for None, <<v>> for the value v
NoValue == << >>

UnitIds == DOMAIN UnitIdChars
WarrantIds == {"w1", "w2"}

\* source is the dict {} unless a caller sets it with EXCEPT
EvidenceItem(id, stance, strength) ==
    [id |-> id, source |-> << >>, stance |-> stance, strength |-> strength]

\* a TextSpan object; `class` tells it from a dict (isinstance)
TextSpan(doc_id, start, end, bbox) ==
    [class |-> "TextSpan", doc_id |-> doc_id, start |-> start, end |-> end,
     bbox |-> bbox]

\* ArgumentBundle: relations holds Relation objects of the graph, named
\* by their index in graph.relations, or objects of its own
ArgumentBundle(id, us, rels) == [id |-> id, units |-> us, relations |-> rels]

\* evidence_ids, evidence_min and evidence_max have the defaults of the
\* dataclass; a caller who passes them sets them with EXCEPT
ArgumentUnit(id, text, score, is_axiom, ignore_influence, evidence) ==
    [id |-> id, text |-> text, score |-> score, is_axiom |-> is_axiom,
     ignore_influence |-> ignore_influence, evidence |-> evidence,
     evidence_ids |-> << >>, evidence_min |-> NoValue, evidence_max |-> NoValue]

Warrant(id, score, is_axiom, ignore_influence, evidence) ==
    [id |-> id, score |-> score, is_axiom |-> is_axiom,
     ignore_influence |-> ignore_influence, evidence |-> evidence,
     evidence_ids |-> << >>]

SupportingDocument(id, trust) == [id |-> id, trust |-> trust]

EvidenceCard(id, supporting_doc_id, confidence) ==
    [id |-> id, supporting_doc_id |-> supporting_doc_id, confidence |-> confidence]

Relation(src, dst, kind, warrant_ids, gate_mode, metadata) ==
    [src |-> src, dst |-> dst, kind |-> kind, warrant_ids |-> warrant_ids,
     gate_mode |-> gate_mode, metadata |-> metadata]

WarrantAttack(src, warrant_id) == [src |-> src, warrant_id |-> warrant_id]

\* dict.get(key, default) and dict[key] = value
DictGet(d, key, default) == IF key \in DOMAIN d THEN d[key] ELSE default

DictSet(d, key, value) ==
    [k \in DOMAIN d \cup {key} |-> IF k = key THEN value ELSE d[k]]

\* the keys of graph.units, in insertion order
unit_keys(us) == [i \in 1..Len(us) |-> us[i].id]

\* a graph value, and the graph held in the state
\* a graph value without evidence cards and supporting documents
Graph(us, ws, rels, watts) ==
    [units |-> us, warrants |-> ws, relations |-> rels, warrant_attacks |-> watts,
     evidence_cards |-> << >>, supporting_documents |-> << >>,
     argument_bundles |-> << >>]

\* the graph held in the state
SelfGraph ==
    [Graph(units, warrants, relations, warrant_attacks) EXCEPT
        !.evidence_cards = evidence_cards,
        !.supporting_documents = supporting_documents,
        !.argument_bundles = argument_bundles]

\* graph.units[unit_id] and the set of keys of graph.units
unit_of(g, unit_id) == g.units[CHOOSE i \in 1..Len(g.units) : g.units[i].id = unit_id]

unit_ids(g) == SeqRange(unit_keys(g.units))

\* self.units[claim_id] = unit: a new key goes last, a known key keeps its
\* place and gets the new value
add_claim(unit) ==
    /\ units' =
          IF unit.id \in SeqRange(unit_keys(units))
          THEN [i \in 1..Len(units) |->
                   IF units[i].id = unit.id THEN unit ELSE units[i]]
          ELSE Append(units, unit)
    /\ graph_out' = NoCall
    /\ UNCHANGED <<warrants, relations, warrant_attacks, evidenceVars, copyVars>>

add_warrant(warrant) ==
    /\ warrants' = DictSet(warrants, warrant.id, warrant)
    /\ graph_out' = NoCall
    /\ UNCHANGED <<units, relations, warrant_attacks, evidenceVars, copyVars>>

\* _next_id(prefix): one more than the largest number that follows the
\* prefix in a key of self.units
_next_id(us, prefix) ==
    LET numbers ==
            {int_of_str(Tail(UnitIdChars[us[i].id])) :
                i \in {j \in 1..Len(us) :
                          /\ startswith(UnitIdChars[us[j].id], prefix)
                          /\ isdigit(Tail(UnitIdChars[us[j].id]))}}
        max_id == IF numbers = {} THEN 0
                  ELSE CHOOSE n \in numbers : \A m \in numbers : m <= n
    IN  StrConcat(<<prefix>> \o str_of_int(max_id + 1))

\* add_claim(text) with claim_id=None: the id is allocated and returned
add_claim_without_id(unit) ==
    LET claim_id == _next_id(units, "c")
        stored == [unit EXCEPT !.id = claim_id]
    IN  /\ units' =
              IF claim_id \in SeqRange(unit_keys(units))
              THEN [i \in 1..Len(units) |->
                       IF units[i].id = claim_id THEN stored ELSE units[i]]
              ELSE Append(units, stored)
        /\ graph_out' = [op |-> "add_claim", returned |-> claim_id]
        /\ UNCHANGED <<warrants, relations, warrant_attacks, evidenceVars, copyVars>>

\* add_warrant(text) with warrant_id=None
add_warrant_without_id(warrant) ==
    LET warrant_id == _next_id(units, "w")
    IN  /\ warrants' = DictSet(warrants, warrant_id, [warrant EXCEPT !.id = warrant_id])
        /\ graph_out' = [op |-> "add_warrant", returned |-> warrant_id]
        /\ UNCHANGED <<units, relations, warrant_attacks, evidenceVars, copyVars>>

\* add_relation stores what it is given: src, dst and warrant_ids are not
\* looked up
add_relation(relation) ==
    /\ relations' = Append(relations, relation)
    /\ graph_out' = NoCall
    /\ UNCHANGED <<units, warrants, warrant_attacks, evidenceVars, copyVars>>

\* raise KeyError(message): the exception a call ends with, << >> when it
\* returns
KeyError(message) == <<[exception |-> "KeyError", message |-> message]>>

\* add_warrant_attack raises KeyError for an unknown warrant id and then
\* changes nothing; src is not looked up
add_warrant_attack_raises(src, warrant_id) ==
    IF warrant_id \notin DOMAIN warrants
    THEN KeyError("Unknown warrant id: " \o warrant_id)
    ELSE << >>

add_warrant_attack(src, warrant_id) ==
    /\ warrant_attacks' =
          IF add_warrant_attack_raises(src, warrant_id) = << >>
          THEN Append(warrant_attacks, WarrantAttack(src, warrant_id))
          ELSE warrant_attacks
    /\ graph_out' = NoCall
    /\ UNCHANGED <<units, warrants, relations, evidenceVars, copyVars>>

\* attach_evidence raises KeyError for an unknown unit id and then changes
\* nothing
attach_evidence_raises(unit_id) ==
    IF unit_id \notin SeqRange(unit_keys(units))
    THEN KeyError("Unknown unit id: " \o unit_id)
    ELSE << >>

attach_evidence(unit_id, evidence_id, stance, strength) ==
    /\ units' =
          IF attach_evidence_raises(unit_id) # << >> THEN units
          ELSE [i \in 1..Len(units) |->
                   IF units[i].id = unit_id
                   THEN [units[i] EXCEPT
                           !.evidence =
                               Append(@, EvidenceItem(evidence_id, stance, strength))]
                   ELSE units[i]]
    /\ graph_out' = NoCall
    /\ UNCHANGED <<warrants, relations, warrant_attacks, evidenceVars, copyVars>>

attach_evidence_to_warrant_raises(warrant_id) ==
    IF warrant_id \notin DOMAIN warrants
    THEN KeyError("Unknown warrant id: " \o warrant_id)
    ELSE << >>

attach_evidence_to_warrant(warrant_id, evidence_id, stance, strength) ==
    /\ warrants' =
          IF attach_evidence_to_warrant_raises(warrant_id) = << >>
          THEN [warrants EXCEPT
                  ![warrant_id].evidence =
                      Append(@, EvidenceItem(evidence_id, stance, strength))]
          ELSE warrants
    /\ graph_out' = NoCall
    /\ UNCHANGED <<units, relations, warrant_attacks, evidenceVars, copyVars>>

\* add_supporting_document and add_evidence_card with overwrite=False: a
\* known id raises ValueError and nothing changes
add_supporting_document(document) ==
    /\ supporting_documents' =
          IF document.id \in DOMAIN supporting_documents THEN supporting_documents
          ELSE DictSet(supporting_documents, document.id, document)
    /\ graph_out' = NoCall
    /\ UNCHANGED <<units, warrants, relations, warrant_attacks, evidence_cards, copyVars>>

add_evidence_card(card) ==
    /\ evidence_cards' =
          IF card.id \in DOMAIN evidence_cards THEN evidence_cards
          ELSE DictSet(evidence_cards, card.id, card)
    /\ graph_out' = NoCall
    /\ UNCHANGED <<units, warrants, relations, warrant_attacks, supporting_documents, copyVars>>

\* attach_evidence_card raises KeyError for an unknown unit or card; else it
\* appends an item whose strength is the card's confidence and records the
\* card id once
attach_evidence_card_raises(unit_id, evidence_id) ==
    IF unit_id \notin SeqRange(unit_keys(units))
    THEN KeyError("Unknown unit id: " \o unit_id)
    ELSE IF evidence_id \notin DOMAIN evidence_cards
    THEN KeyError("Unknown evidence card id: " \o evidence_id)
    ELSE << >>

attach_evidence_card(unit_id, evidence_id, stance) ==
    /\ units' =
          IF attach_evidence_card_raises(unit_id, evidence_id) # << >> THEN units
          ELSE [i \in 1..Len(units) |->
                   IF units[i].id = unit_id
                   THEN [units[i] EXCEPT
                           !.evidence =
                               Append(@, [EvidenceItem(
                                              evidence_id, stance,
                                              <<evidence_cards[evidence_id].confidence>>)
                                          EXCEPT !.source =
                                              [evidence_card_id |-> evidence_id]]),
                           !.evidence_ids =
                               IF evidence_id \in SeqRange(@) THEN @
                               ELSE Append(@, evidence_id)]
                   ELSE units[i]]
    /\ graph_out' = NoCall
    /\ UNCHANGED <<warrants, relations, warrant_attacks, evidenceVars, copyVars>>

\* what the mutators are called with
UnitPool ==
    {ArgumentUnit("c1", "Rain", <<Scale>>, TRUE, FALSE, << >>),
     ArgumentUnit("c2", "rain ", NoValue, FALSE, FALSE,
                  <<EvidenceItem("ev1", "attacks", <<Scale \div 2>>)>>),
     ArgumentUnit("c2", "Wet", NoValue, FALSE, FALSE, << >>)}

WarrantPool ==
    {Warrant("w1", <<Scale>>, TRUE, FALSE, << >>),
     Warrant("w2", NoValue, FALSE, FALSE, << >>)}

WarrantAttackPool == {WarrantAttack("c1", "w1")}

RelationPool ==
    {Relation("c1", "c2", "support", << >>, "OR", << >>),
     Relation("c1", "c1", "attack", << >>, "OR", << >>),
     Relation("c1", "c2", "support", <<"w1", "w2">>, "AND", << >>),
     Relation("c2", "c1", "support", <<"w1", "w2">>, "OR", << >>),
     Relation("c1", "c2", "attack", <<"w1">>, "OR", << >>),
     Relation("c1", "c1", "support", <<"w1">>, "OR", << >>)}

\* relations added with metadata of the caller's
GateRelationPool ==
    RelationPool \cup
        {Relation("c1", "c2", "support", <<"w1">>, "AND",
                  [k \in {"gate_disabled"} |-> TRUE])}

\* the graphs a credibility run is given: an axiom claim, a plain claim, a
\* claim that ignores influence (an axiom of score -1.0, or one that rests on
\* its evidence), warrants of the same kinds
ScoreUnitPool ==
    {ArgumentUnit("c1", "Rain", <<Scale>>, TRUE, FALSE, << >>),
     ArgumentUnit("c2", "Wet", NoValue, FALSE, FALSE, << >>),
     ArgumentUnit("c2", "Wet", <<0 - Scale>>, TRUE, TRUE,
                  <<EvidenceItem("ev2", "supports", NoValue)>>),
     ArgumentUnit("c2", "Wet", NoValue, FALSE, TRUE,
                  <<EvidenceItem("ev1", "supports", <<Scale \div 2>>)>>)}

ScoreWarrantPool ==
    {Warrant("w1", <<Scale>>, TRUE, FALSE, << >>),
     Warrant("w2", NoValue, FALSE, FALSE, << >>),
     Warrant("w2", NoValue, FALSE, TRUE,
             <<EvidenceItem("ev1", "supports", NoValue)>>),
     Warrant("w2", <<2 * Scale>>, TRUE, FALSE,
             <<EvidenceItem("ev1", "attacks", NoValue)>>)}

ScoreRelationPool ==
    {Relation("c1", "c2", "support", <<"w1">>, "OR", << >>),
     Relation("c1", "c2", "attack", <<"w1">>, "OR", << >>),
     Relation("c1", "c2", "support", <<"w1", "w2">>, "AND", << >>)}

ScoreWarrantAttackPool == WarrantAttackPool \cup {WarrantAttack("c1", "w2")}

\* claims that evidence is attached to: one without bounds, one declared
\* with evidence_min=0.0 and evidence_max=0.5
EvidenceUnitPool ==
    {ArgumentUnit("c2", "Wet", NoValue, FALSE, FALSE, << >>),
     [ArgumentUnit("c2", "Wet", NoValue, FALSE, FALSE, << >>) EXCEPT
         !.evidence_min = <<0>>, !.evidence_max = <<Scale \div 2>>]}

EvidenceIds == {"ev1", "ev2"}

\* stance and strength of the items attach_evidence is called with
EvidencePool ==
    {[stance |-> "supports", strength |-> NoValue],
     [stance |-> "attacks", strength |-> <<Scale \div 2>>]}

EvidenceCardPool == {EvidenceCard("ev1", "d1", (8 * Scale) \div 10)}

SupportingDocumentPool == {SupportingDocument("d1", <<Scale \div 2>>)}

\* claims added under ids of the caller's, and a claim and warrants added
\* with claim_id=None and warrant_id=None (the id field is filled in by the
\* call)
GraphUnitPool ==
    {ArgumentUnit("c02", "Dry", NoValue, FALSE, FALSE, << >>),
     ArgumentUnit("w1", "Rule", NoValue, FALSE, FALSE, << >>)}

UnitWithoutId == ArgumentUnit("", "Rain", NoValue, FALSE, FALSE, << >>)

WarrantsWithoutId == {[warrant EXCEPT !.id = ""] : warrant \in WarrantPool}

GraphRelationPool ==
    {Relation("c1", "c2", "support", <<"w1">>, "OR", << >>),
     Relation("c2", "c1", "attack", << >>, "OR", << >>)}

\* ------------------------------------------------------------- edge ids
\* f"e{index}" and its parsing in apply_gate_actions; an id is its list of
\* characters
edge_id(index) == <<"e">> \o str_of_int(index)

\* ------------------------------------------------------------- find_cycles
\* algorithms/basics.py
build_edges(triples, kinds) ==
    LET kept == SelectSeq(triples, LAMBDA t : t[3] \in kinds)
    IN  [i \in 1..Len(kept) |-> <<kept[i][1], kept[i][2]>>]

RECURSIVE adjacency_keys(_, _)
\* the keys of `adjacency` in insertion order: the nodes, then every edge
\* end that is not a key yet
adjacency_keys(keys, ends) ==
    IF ends = << >> THEN keys
    ELSE adjacency_keys(IF ends[1] \in SeqRange(keys) THEN keys
                        ELSE Append(keys, ends[1]), Tail(ends))

RECURSIVE flatten_edges(_)
flatten_edges(edges) ==
    IF edges = << >> THEN << >>
    ELSE <<edges[1][1], edges[1][2]>> \o flatten_edges(Tail(edges))

RECURSIVE dedupe(_)
dedupe(list) ==
    IF list = << >> THEN << >>
    ELSE LET front == dedupe(SubSeq(list, 1, Len(list) - 1))
         IN  IF list[Len(list)] \in SeqRange(front) THEN front
             ELSE Append(front, list[Len(list)])

neighbors(edges, node) ==
    LET out == SelectSeq(edges, LAMBDA e : e[1] = node)
    IN  [i \in 1..Len(out) |-> out[i][2]]

index_in(list, x) == CHOOSE i \in 1..Len(list) : list[i] = x

RECURSIVE rotate_to(_, _)
\* while cycle[0] != min_node: cycle = cycle[1:] + cycle[:1]
rotate_to(cycle, min_node) ==
    IF cycle[1] = min_node THEN cycle
    ELSE rotate_to(Tail(cycle) \o <<cycle[1]>>, min_node)

\* record_cycle without the rotation: the slice of the stack as it is found
record_cycle_unrotated(stack, start_index) ==
    SubSeq(stack, start_index, Len(stack))

record_cycle(stack, start_index) ==
    LET cycle == SubSeq(stack, start_index, Len(stack))
    IN  rotate_to(cycle, sorted(SeqRange(cycle))[1])

RECURSIVE dfs(_, _, _)
RECURSIVE dfs_neighbors(_, _, _, _)
\* dfs(node) on the state st = (seen, stack, cycles); on_stack is the set of
\* nodes on the stack
dfs(edges, node, st) ==
    LET entered == [seen |-> st.seen \cup {node},
                    stack |-> Append(st.stack, node),
                    cycles |-> st.cycles]
        left == dfs_neighbors(edges, neighbors(edges, node), 1, entered)
    IN  [left EXCEPT !.stack = SubSeq(left.stack, 1, Len(left.stack) - 1)]

dfs_neighbors(edges, nbrs, k, st) ==
    IF k > Len(nbrs) THEN st
    ELSE LET neighbor == nbrs[k]
             after ==
                 IF neighbor \notin st.seen THEN dfs(edges, neighbor, st)
                 ELSE IF neighbor \in SeqRange(st.stack)
                      THEN [st EXCEPT !.cycles =
                               @ \cup {record_cycle(st.stack,
                                                    index_in(st.stack, neighbor))}]
                 ELSE st
         IN  dfs_neighbors(edges, nbrs, k + 1, after)

RECURSIVE dfs_roots(_, _, _, _)
\* for node in adjacency: if node not in seen: dfs(node)
dfs_roots(edges, keys, k, st) ==
    IF k > Len(keys) THEN st
    ELSE dfs_roots(edges, keys, k + 1,
                   IF keys[k] \in st.seen THEN st ELSE dfs(edges, keys[k], st))

RECURSIVE TupleLess(_, _)
\* Python's "<" on tuples of strings
TupleLess(x, y) ==
    IF y = << >> THEN FALSE
    ELSE IF x = << >> THEN TRUE
    ELSE IF x[1] # y[1] THEN StrLess(x[1], y[1])
    ELSE TupleLess(Tail(x), Tail(y))

RECURSIVE sorted_tuples(_)
sorted_tuples(S) ==
    IF S = {} THEN << >>
    ELSE LET m == CHOOSE x \in S : \A y \in S \ {x} : TupleLess(x, y)
         IN  <<m>> \o sorted_tuples(S \ {m})

find_cycles(nodes, edges) ==
    LET keys == adjacency_keys(dedupe(nodes), flatten_edges(edges))
        done == dfs_roots(edges, keys, 1,
                          [seen |-> {}, stack |-> << >>, cycles |-> {}])
    IN  sorted_tuples(done.cycles)

\* ArgumentGraph.diagnostics(): nodes, all_edges and cycles (core/graph.py)
diagnostics_nodes(g) == unit_keys(g.units)

diagnostics_edges(g) ==
    build_edges([i \in 1..Len(g.relations) |->
                    <<g.relations[i].src, g.relations[i].dst, g.relations[i].kind>>],
                {"support", "attack", "undercut", "rebut"})

diagnostics ==
    LET cycles == find_cycles(diagnostics_nodes(SelfGraph), diagnostics_edges(SelfGraph))
    IN  /\ graph_out = NoCall
        /\ graph_out' = [op |-> "diagnostics",
                         node_count |-> Len(units),
                         relation_count |-> Len(relations),
                         cycle_count |-> Len(cycles),
                         cycles |-> cycles]
        /\ UNCHANGED <<units, warrants, relations, warrant_attacks, evidenceVars, copyVars>>

\* the claims and relations of the graphs diagnostics() is run on
DiagnosticsUnitPool ==
    {ArgumentUnit(id, "Rain", NoValue, FALSE, FALSE, << >>) : id \in {"c1", "c2", "c3"}}

DiagnosticsRelationPool ==
    {Relation("c1", "c2", "support", << >>, "OR", << >>),
     Relation("c2", "c3", "support", << >>, "OR", << >>),
     Relation("c3", "c1", "attack", << >>, "OR", << >>),
     Relation("c1", "c3", "attack", << >>, "OR", << >>),
     Relation("c2", "c1", "attack", << >>, "OR", << >>),
     Relation("c2", "c2", "attack", << >>, "OR", << >>)}

\* ------------------------------------------------------------- critique engine
\* critique/patterns.py.  A PatternMatch keeps the fields that are read
\* again (pattern_id, action, nodes, edges); name, category, kind,
\* description and message are fixed texts.
PatternMatch(pattern_id, action, nodes, edges) ==
    [pattern_id |-> pattern_id, action |-> action, nodes |-> nodes, edges |-> edges]

PatternIds ==
    {"circular_reasoning", "self_attack", "unsupported_conclusion",
     "redundancy", "contradiction", "unstated_warrant"}

\* _DEFAULT_PATTERNS: the action of each pattern
_DEFAULT_PATTERNS ==
    [pattern_id \in PatternIds |->
        CASE pattern_id \in {"circular_reasoning", "self_attack", "unstated_warrant"}
               -> "disable_edge"
          [] pattern_id \in {"unsupported_conclusion", "redundancy"} -> "flag_node"
          [] pattern_id = "contradiction" -> "flag_edge"]

\* load_pattern_bank with a bank file that redefines one pattern
RestrictingBank ==
    [_DEFAULT_PATTERNS EXCEPT !["unstated_warrant"] = "restrict_edge"]

PatternBanks == {_DEFAULT_PATTERNS, RestrictingBank}

RECURSIVE concat(_)
\* the lists of a list, joined
concat(lists) == IF lists = << >> THEN << >> ELSE lists[1] \o concat(Tail(lists))

_cycle_edges(cycle) ==
    [i \in 1..Len(cycle) |-> <<cycle[i], cycle[(i % Len(cycle)) + 1]>>]

_edge_ids_for_pairs(rels, pairs, kind) ==
    concat([i \in 1..Len(rels) |->
               IF rels[i].kind = kind /\ <<rels[i].src, rels[i].dst>> \in SeqRange(pairs)
               THEN <<edge_id(i - 1)>> ELSE << >>])

\* text.lower() with runs of whitespace collapsed, for the texts in use
_normalize_text(text) ==
    CASE text = "Rain" -> "rain"
      [] text = "rain " -> "rain"
      [] text = "Wet" -> "wet"
      [] text = "Dry" -> "dry"
      [] text = "Rule" -> "rule"
      [] OTHER -> text

\* the sources list of each (target, key) group, groups in the order the
\* nested dicts of by_target were filled
_detect_redundancy(g, rels, pattern_action) ==
    LET known(i) == rels[i].kind = "support" /\ rels[i].src \in unit_ids(g)
        key(i) == _normalize_text(unit_of(g, rels[i].src).text)
        group(i) == <<rels[i].dst, key(i)>>
        first(i) == known(i) /\ \A j \in 1..(i - 1) : known(j) => group(j) # group(i)
        targets == dedupe(concat([i \in 1..Len(rels) |->
                             IF known(i) THEN <<rels[i].dst>> ELSE << >>]))
        sources(t, i) ==
            concat([j \in 1..Len(rels) |->
                       IF known(j) /\ group(j) = group(i) THEN <<rels[j].src>> ELSE << >>])
        of_target(t) ==
            concat([i \in 1..Len(rels) |->
                       IF first(i) /\ rels[i].dst = t /\ Len(sources(t, i)) >= 2
                       THEN <<PatternMatch("redundancy", pattern_action,
                                           sorted(SeqRange(sources(t, i)) \cup {t}),
                                           << >>)>>
                       ELSE << >>])
    IN  concat([k \in 1..Len(targets) |-> of_target(targets[k])])

_detect_contradiction(rels, pattern_action) ==
    LET pair(i) == <<rels[i].src, rels[i].dst>>
        first(i) == \A j \in 1..(i - 1) : pair(j) # pair(i)
        of_kind(i, kind) ==
            concat([j \in 1..Len(rels) |->
                       IF pair(j) = pair(i) /\ rels[j].kind = kind
                       THEN <<edge_id(j - 1)>> ELSE << >>])
    IN  concat([i \in 1..Len(rels) |->
                   IF /\ first(i)
                      /\ of_kind(i, "support") # << >>
                      /\ of_kind(i, "attack") # << >>
                   THEN <<PatternMatch("contradiction", pattern_action, pair(i),
                                       of_kind(i, "support") \o of_kind(i, "attack"))>>
                   ELSE << >>])

\* incoming_support that lists the relations of every kind
incoming_support_of_any_kind(rels, claim_id) ==
    concat([i \in 1..Len(rels) |->
               IF rels[i].dst = claim_id THEN <<i - 1>> ELSE << >>])

\* incoming_support[claim_id]: the indices of the support relations that
\* target the claim
incoming_support(rels, claim_id) ==
    concat([i \in 1..Len(rels) |->
               IF rels[i].kind = "support" /\ rels[i].dst = claim_id
               THEN <<i - 1>> ELSE << >>])

detect_patterns(g, bank) ==
    LET rels == g.relations
        support_edges == [i \in 1..Len(rels) |-> <<rels[i].src, rels[i].dst, rels[i].kind>>]
        support_pairs == build_edges(support_edges, {"support"})
        cycles == find_cycles(unit_keys(g.units), support_pairs)
        circular ==
            concat([k \in 1..Len(cycles) |->
                       IF Len(cycles[k]) < 2 THEN << >>
                       ELSE <<PatternMatch("circular_reasoning", bank["circular_reasoning"],
                                           cycles[k],
                                           _edge_ids_for_pairs(rels, _cycle_edges(cycles[k]),
                                                               "support"))>>])
        per_relation ==
            concat([i \in 1..Len(rels) |->
                       (IF rels[i].kind = "attack" /\ rels[i].src = rels[i].dst
                        THEN <<PatternMatch("self_attack", bank["self_attack"],
                                            <<rels[i].src>>, <<edge_id(i - 1)>>)>>
                        ELSE << >>)
                       \o (IF rels[i].warrant_ids = << >>
                           THEN <<PatternMatch("unstated_warrant", bank["unstated_warrant"],
                                               <<rels[i].src, rels[i].dst>>,
                                               <<edge_id(i - 1)>>)>>
                           ELSE << >>)])
        \* incoming_support has a key per claim; a key added for the target
        \* of a support relation never has an empty list
        unsupported ==
            concat([k \in 1..Len(g.units) |->
                       IF incoming_support(rels, g.units[k].id) # << >>
                       THEN << >>
                       ELSE <<PatternMatch("unsupported_conclusion",
                                           bank["unsupported_conclusion"],
                                           <<g.units[k].id>>, << >>)>>])
    IN  circular \o per_relation \o unsupported
            \o _detect_redundancy(g, rels, bank["redundancy"])
            \o _detect_contradiction(rels, bank["contradiction"])

\* apply_action that records the pattern without closing the gate
apply_action_unmarked(relation, match) ==
    IF match.action \in {"disable_edge", "restrict_edge"}
    THEN [relation EXCEPT !.metadata = DictSet(@, "gate_action", match.pattern_id)]
    ELSE relation

\* the body of the edge loop for a relation that an edge id resolved to
apply_action(relation, match) ==
    IF match.action = "disable_edge"
    THEN [relation EXCEPT !.metadata =
             DictSet(DictSet(@, "gate_disabled", TRUE), "gate_action", match.pattern_id)]
    ELSE IF match.action = "restrict_edge"
    THEN [relation EXCEPT
             !.gate_mode = "AND",
             !.metadata =
                 DictSet(DictSet(@, "gate_restricted", TRUE), "gate_action",
                         match.pattern_id)]
    ELSE relation

RECURSIVE apply_edges(_, _, _)
\* for edge_id in match.edges, from the k-th on; `raised` once int() has
\* refused a suffix that isdigit() let through
apply_edges(rels, match, k) ==
    IF k > Len(match.edges) THEN [relations |-> rels, raised |-> FALSE]
    ELSE LET id == match.edges[k]
             suffix == Tail(id)
         IN  IF ~ startswith(id, "e") THEN apply_edges(rels, match, k + 1)
             ELSE IF ~ isdigit(suffix) THEN apply_edges(rels, match, k + 1)
             ELSE IF int_raises(suffix) THEN [relations |-> rels, raised |-> TRUE]
             ELSE LET index == int_of_str(suffix)
                  IN  IF index < 0 \/ index >= Len(rels)
                      THEN apply_edges(rels, match, k + 1)
                      ELSE apply_edges(
                               [rels EXCEPT ![index + 1] = apply_action(@, match)],
                               match, k + 1)

RECURSIVE apply_gate_actions(_, _)
\* the relations of the graph after apply_gate_actions(graph, matches)
apply_gate_actions(rels, matches) ==
    IF matches = << >> THEN [relations |-> rels, raised |-> FALSE]
    ELSE IF matches[1].action \notin {"disable_edge", "restrict_edge"}
         THEN apply_gate_actions(rels, Tail(matches))
    ELSE LET done == apply_edges(rels, matches[1], 1)
         IN  IF done.raised THEN done
             ELSE apply_gate_actions(done.relations, Tail(matches))

\* match lists a caller hands to apply_gate_actions without detect_patterns
MatchPool ==
    {<<PatternMatch("contradiction", "flag_edge", <<"c1", "c2">>, <<edge_id(0)>>)>>,
     <<PatternMatch("custom", "restrict_edge", << >>, <<edge_id(1)>>)>>,
     <<PatternMatch("custom", "disable_edge", << >>, <<<<"e", "0", "1">>>>)>>,
     <<PatternMatch("custom", "disable_edge", << >>,
                    <<<<"x", "0">>, <<"e">>, << >>, <<"e", "-", "1">>, <<"e", "9">>>>)>>,
     <<PatternMatch("custom", "disable_edge", << >>, <<<<"e", "^2">>>>),
       PatternMatch("custom", "disable_edge", << >>, <<edge_id(0)>>)>>}

\* matches = detect_patterns(graph, pattern_bank=bank)
detect_patterns_call(bank) ==
    /\ graph_out = NoCall
    /\ graph_out' = [op |-> "detect_patterns", matches |-> detect_patterns(SelfGraph, bank)]
    /\ UNCHANGED <<units, warrants, relations, warrant_attacks, evidenceVars, copyVars>>

\* apply_gate_actions(graph, matches) with the matches just detected
apply_detected ==
    /\ graph_out.op = "detect_patterns"
    /\ LET done == apply_gate_actions(relations, graph_out.matches)
       IN  /\ relations' = done.relations
           /\ graph_out' = [op |-> "apply_gate_actions", matches |-> graph_out.matches,
                            raised |-> done.raised]
    /\ UNCHANGED <<units, warrants, warrant_attacks, evidenceVars, copyVars>>

\* apply_gate_actions(graph, matches) with matches of the caller's making
apply_given(matches) ==
    /\ graph_out = NoCall
    /\ LET done == apply_gate_actions(relations, matches)
       IN  /\ relations' = done.relations
           /\ graph_out' = [op |-> "apply_gate_actions", matches |-> matches,
                            raised |-> done.raised]
    /\ UNCHANGED <<units, warrants, warrant_attacks, evidenceVars, copyVars>>

\* ------------------------------------------------------------- to_dict / from_dict
\* core/graph.py, core/units.py, core/warrants.py, core/relations.py,
\* core/evidence.py, core/bundles.py, core/spans.py.  A payload dict is a
\* record; a dict of the graph that a payload hands on uncopied (metadata)
\* is named as an object: the metadata dict of relation number `index` of
\* the graph `owner`.
ObjectOf(owner, index) == [object_of |-> owner, index |-> index]

is_object(value) == DOMAIN value = {"object_of", "index"}

RelationOf(index) == [relation_of |-> index]

isinstance_TextSpan(source) == "class" \in DOMAIN source /\ source.class = "TextSpan"

\* define_argument(units, bundle_id=bundle_id) with relations=None: fewer
\* than two units or a known bundle id raise ValueError, an unknown unit
\* raises KeyError, and nothing changes; else the bundle holds the Relation
\* objects of the graph that run between its units
define_argument(us, bundle_id) ==
    LET inside == SelectSeq([i \in 1..Len(relations) |-> i],
                            LAMBDA i : /\ relations[i].src \in SeqRange(us)
                                       /\ relations[i].dst \in SeqRange(us))
        bundle == ArgumentBundle(bundle_id, us,
                                 [k \in 1..Len(inside) |-> RelationOf(inside[k])])
    IN  /\ argument_bundles' =
              IF \/ Len(us) < 2
                 \/ bundle_id \in DOMAIN argument_bundles
                 \/ ~ (SeqRange(us) \subseteq SeqRange(unit_keys(units)))
              THEN argument_bundles
              ELSE DictSet(argument_bundles, bundle_id, bundle)
        /\ graph_out' = NoCall
        /\ UNCHANGED <<units, warrants, relations, warrant_attacks, evidenceVars, restored>>

TextSpan_to_dict(span) ==
    [doc_id |-> span.doc_id, start |-> span.start, end |-> span.end, bbox |-> span.bbox]

\* tuple(data["bbox"]) if data.get("bbox") is not None else None
TextSpan_from_dict(data) ==
    TextSpan(data.doc_id, data.start, data.end, DictGet(data, "bbox", NoValue))

EvidenceItem_to_dict(item) ==
    [id |-> item.id,
     source |-> IF isinstance_TextSpan(item.source)
                THEN [type |-> "text_span", value |-> TextSpan_to_dict(item.source)]
                ELSE [type |-> "structured", value |-> item.source],
     stance |-> item.stance,
     strength |-> item.strength]

EvidenceItem_from_dict(data) ==
    LET source_data == data.source
        type == DictGet(source_data, "type", "")
        source == IF type = "text_span" THEN TextSpan_from_dict(source_data.value)
                  ELSE IF type = "structured" THEN DictGet(source_data, "value", << >>)
                  ELSE IF "doc_id" \in DOMAIN source_data
                       THEN TextSpan_from_dict(source_data)
                  ELSE source_data
    IN  [id |-> data.id, source |-> source, stance |-> data.stance,
         strength |-> DictGet(data, "strength", NoValue)]

ArgumentUnit_to_dict(unit) ==
    [id |-> unit.id, text |-> unit.text,
     evidence |-> [i \in 1..Len(unit.evidence) |-> EvidenceItem_to_dict(unit.evidence[i])],
     evidence_ids |-> unit.evidence_ids,
     evidence_min |-> unit.evidence_min, evidence_max |-> unit.evidence_max,
     score |-> unit.score, is_axiom |-> unit.is_axiom,
     ignore_influence |-> unit.ignore_influence]

evidence_from_dict(data) ==
    LET items == DictGet(data, "evidence", << >>)
    IN  [i \in 1..Len(items) |-> EvidenceItem_from_dict(items[i])]

ArgumentUnit_from_dict(data) ==
    [id |-> data.id, text |-> data.text,
     score |-> DictGet(data, "score", NoValue),
     is_axiom |-> DictGet(data, "is_axiom", FALSE) = TRUE,
     ignore_influence |-> DictGet(data, "ignore_influence", FALSE) = TRUE,
     evidence |-> evidence_from_dict(data),
     evidence_ids |-> DictGet(data, "evidence_ids", << >>),
     evidence_min |-> DictGet(data, "evidence_min", NoValue),
     evidence_max |-> DictGet(data, "evidence_max", NoValue)]

Warrant_to_dict(warrant) ==
    [id |-> warrant.id,
     evidence |-> [i \in 1..Len(warrant.evidence) |->
                      EvidenceItem_to_dict(warrant.evidence[i])],
     evidence_ids |-> warrant.evidence_ids,
     score |-> warrant.score, is_axiom |-> warrant.is_axiom,
     ignore_influence |-> warrant.ignore_influence]

Warrant_from_dict(data) ==
    [id |-> data.id,
     score |-> DictGet(data, "score", NoValue),
     is_axiom |-> DictGet(data, "is_axiom", FALSE) = TRUE,
     ignore_influence |-> DictGet(data, "ignore_influence", FALSE) = TRUE,
     evidence |-> evidence_from_dict(data),
     evidence_ids |-> DictGet(data, "evidence_ids", << >>)]

\* "metadata": self.metadata hands on the dict object itself;
\* "warrant_ids": list(self.warrant_ids) is a copy
Relation_to_dict(relation, object) ==
    [src |-> relation.src, dst |-> relation.dst, kind |-> relation.kind,
     warrant_ids |-> relation.warrant_ids,
     gate_mode |-> relation.gate_mode,
     metadata |-> IF is_object(relation.metadata) THEN relation.metadata ELSE object]

\* Relation.from_dict that leaves gate_mode at the default of the dataclass
Relation_from_dict_default_gate(data) ==
    Relation(data.src, data.dst, data.kind,
             DictGet(data, "warrant_ids", << >>), "OR",
             DictGet(data, "metadata", << >>))

\* metadata=data.get("metadata", {}): the object found in the payload
Relation_from_dict(data) ==
    Relation(data.src, data.dst, data.kind,
             DictGet(data, "warrant_ids", << >>),
             DictGet(data, "gate_mode", "OR"),
             DictGet(data, "metadata", << >>))

WarrantAttack_to_dict(attack) == [src |-> attack.src, warrant_id |-> attack.warrant_id]

WarrantAttack_from_dict(data) == WarrantAttack(data.src, data.warrant_id)

EvidenceCard_to_dict(card) ==
    [id |-> card.id, supporting_doc_id |-> card.supporting_doc_id,
     confidence |-> card.confidence]

EvidenceCard_from_dict(data) ==
    EvidenceCard(data.id, data.supporting_doc_id, data.confidence)

SupportingDocument_to_dict(doc) == [id |-> doc.id, trust |-> doc.trust]

SupportingDocument_from_dict(data) ==
    SupportingDocument(data.id, DictGet(data, "trust", NoValue))

\* the Relation object a bundle holds, and the index it has in graph.relations
\* when it is an object of the graph
bundle_relation(g, held) ==
    IF DOMAIN held = {"relation_of"} THEN g.relations[held.relation_of] ELSE held

ArgumentBundle_to_dict(bundle, g, owner) ==
    [id |-> bundle.id, units |-> bundle.units,
     relations |->
         [i \in 1..Len(bundle.relations) |->
             Relation_to_dict(
                 bundle_relation(g, bundle.relations[i]),
                 IF DOMAIN bundle.relations[i] = {"relation_of"}
                 THEN ObjectOf(owner, bundle.relations[i].relation_of)
                 ELSE ObjectOf(owner, 0))]]

ArgumentBundle_from_dict(data) ==
    LET items == DictGet(data, "relations", << >>)
    IN  ArgumentBundle(data.id, DictGet(data, "units", << >>),
                       [i \in 1..Len(items) |-> Relation_from_dict(items[i])])

\* graph.to_dict() of the graph `owner`; "units" is the list of the items of
\* the dict, in insertion order
to_dict(g, owner) ==
    [units |-> [i \in 1..Len(g.units) |-> <<g.units[i].id, ArgumentUnit_to_dict(g.units[i])>>],
     warrants |-> [id \in DOMAIN g.warrants |-> Warrant_to_dict(g.warrants[id])],
     relations |-> [i \in 1..Len(g.relations) |->
                       Relation_to_dict(g.relations[i], ObjectOf(owner, i))],
     warrant_attacks |-> [i \in 1..Len(g.warrant_attacks) |->
                             WarrantAttack_to_dict(g.warrant_attacks[i])],
     evidence_cards |-> [id \in DOMAIN g.evidence_cards |->
                            EvidenceCard_to_dict(g.evidence_cards[id])],
     supporting_documents |-> [id \in DOMAIN g.supporting_documents |->
                                  SupportingDocument_to_dict(g.supporting_documents[id])],
     argument_bundles |-> [id \in DOMAIN g.argument_bundles |->
                              ArgumentBundle_to_dict(g.argument_bundles[id], g, owner)]]

\* ArgumentGraph.from_dict(data) for a payload whose unit keys are the ids of
\* the units stored under them
from_dict(data) ==
    LET us == DictGet(data, "units", << >>)
        ws == DictGet(data, "warrants", << >>)
        rels == DictGet(data, "relations", << >>)
        watts == DictGet(data, "warrant_attacks", << >>)
        cards == DictGet(data, "evidence_cards", << >>)
        docs == DictGet(data, "supporting_documents", << >>)
        bundles == DictGet(data, "argument_bundles", << >>)
    IN  [units |-> [i \in 1..Len(us) |-> ArgumentUnit_from_dict(us[i][2])],
         warrants |-> [id \in DOMAIN ws |-> Warrant_from_dict(ws[id])],
         relations |-> [i \in 1..Len(rels) |-> Relation_from_dict(rels[i])],
         warrant_attacks |-> [i \in 1..Len(watts) |-> WarrantAttack_from_dict(watts[i])],
         evidence_cards |-> [id \in DOMAIN cards |-> EvidenceCard_from_dict(cards[id])],
         supporting_documents |->
             [id \in DOMAIN docs |-> SupportingDocument_from_dict(docs[id])],
         argument_bundles |->
             [id \in DOMAIN bundles |-> ArgumentBundle_from_dict(bundles[id])]]

\* the relation with the contents of its metadata dict, which is its own or
\* a dict of the graph in the state
with_metadata(relation) ==
    IF is_object(relation.metadata)
    THEN [relation EXCEPT !.metadata = relations[relation.metadata.index].metadata]
    ELSE relation

\* a graph as its fields read: every metadata dict by its contents, every
\* Relation of a bundle by its fields
as_read(g) ==
    [g EXCEPT
        !.relations = [i \in 1..Len(g.relations) |-> with_metadata(g.relations[i])],
        !.argument_bundles =
            [id \in DOMAIN g.argument_bundles |->
                [g.argument_bundles[id] EXCEPT
                    !.relations =
                        [i \in 1..Len(g.argument_bundles[id].relations) |->
                            with_metadata(bundle_relation(
                                g, g.argument_bundles[id].relations[i]))]]]]

\* restored = ArgumentGraph.from_dict(graph.to_dict())
from_dict_call ==
    /\ restored = << >>
    /\ restored' = <<from_dict(to_dict(SelfGraph, "graph"))>>
    /\ graph_out' = [op |-> "from_dict", payload |-> to_dict(SelfGraph, "graph")]
    /\ UNCHANGED <<units, warrants, relations, warrant_attacks, evidenceVars,
                   argument_bundles>>

\* restored.add_relation(...): the new Relation has a metadata dict of its own
restored_add_relation(relation) ==
    /\ restored # << >>
    /\ restored' = <<[restored[1] EXCEPT !.relations = Append(@, relation)]>>
    /\ graph_out' = NoCall
    /\ UNCHANGED <<units, warrants, relations, warrant_attacks, evidenceVars,
                   argument_bundles>>

\* apply_gate_actions(restored, matches): gate_mode is written to the
\* Relation objects of `restored`, the metadata entries to the dicts these
\* objects hold, which are dicts of the first graph where from_dict took them
\* from the payload
restored_apply_given(matches) ==
    /\ restored # << >>
    /\ LET held == restored[1].relations
           read == [i \in 1..Len(held) |-> with_metadata(held[i])]
           done == apply_gate_actions(read, matches)
           written == done.relations
       IN  /\ restored' =
                 <<[restored[1] EXCEPT
                       !.relations =
                           [i \in 1..Len(held) |->
                               IF is_object(held[i].metadata)
                               THEN [written[i] EXCEPT !.metadata = held[i].metadata]
                               ELSE written[i]]]>>
           /\ relations' =
                 [j \in 1..Len(relations) |->
                     IF \E i \in 1..Len(held) :
                           held[i].metadata = ObjectOf("graph", j)
                     THEN [relations[j] EXCEPT
                             !.metadata =
                                 written[CHOOSE i \in 1..Len(held) :
                                            held[i].metadata = ObjectOf("graph", j)].metadata]
                     ELSE relations[j]]
           /\ graph_out' = [op |-> "apply_gate_actions", matches |-> matches,
                            raised |-> done.raised]
    /\ UNCHANGED <<units, warrants, warrant_attacks, evidenceVars, argument_bundles>>

\* ------------------------------------------------------------- payload validation
\* io/schema.py, io/json.py.  The checks of presence and of type are passed
\* by every payload considered here (each is a to_dict() output with keys
\* or relations changed by hand) and are left out; the errors are listed
\* section by section as the code does, the entries of a dict by sorted key.
has_items(dict) == DOMAIN dict # {}

unit_errors(unit_id, unit, evidence_cards_data) ==
    (IF DictGet(unit, "id", NoValue) # unit_id
     THEN <<"unit '" \o unit_id \o "' id field does not match its key.">>
     ELSE << >>)
    \o LET ids == DictGet(unit, "evidence_ids", << >>)
           unknown == SelectSeq(ids, LAMBDA evidence_id :
                                    /\ has_items(evidence_cards_data)
                                    /\ evidence_id \notin DOMAIN evidence_cards_data)
       IN  [i \in 1..Len(unknown) |->
               "unit '" \o unit_id \o "' evidence_id '" \o unknown[i]
                   \o "' is not a known evidence card."]

card_errors(card_id, card, supporting_documents_data) ==
    (IF DictGet(card, "id", NoValue) # card_id
     THEN <<"evidence_card '" \o card_id \o "' id field does not match its key.">>
     ELSE << >>)
    \o (IF DictGet(card, "supporting_doc_id", "") # ""
           /\ card.supporting_doc_id \notin DOMAIN supporting_documents_data
        THEN <<"evidence_card '" \o card_id \o "' references unknown supporting_doc_id.">>
        ELSE << >>)

document_errors(doc_id, doc) ==
    IF DictGet(doc, "id", NoValue) # doc_id
    THEN <<"supporting_document '" \o doc_id \o "' id field does not match its key.">>
    ELSE << >>

warrant_errors(warrant_id, warrant, evidence_cards_data) ==
    (IF DictGet(warrant, "id", NoValue) # warrant_id
     THEN <<"warrant '" \o warrant_id \o "' id field does not match its key.">>
     ELSE << >>)
    \o LET ids == DictGet(warrant, "evidence_ids", << >>)
           unknown == SelectSeq(ids, LAMBDA evidence_id :
                                    /\ has_items(evidence_cards_data)
                                    /\ evidence_id \notin DOMAIN evidence_cards_data)
       IN  [i \in 1..Len(unknown) |->
               "warrant '" \o warrant_id \o "' evidence_id '" \o unknown[i]
                   \o "' is not a known evidence card."]

bundle_errors(bundle_id, bundle, unit_ids_data) ==
    (IF DictGet(bundle, "id", NoValue) # bundle_id
     THEN <<"argument_bundle '" \o bundle_id \o "' id field does not match its key.">>
     ELSE << >>)
    \o LET members == DictGet(bundle, "units", << >>)
           unknown == SelectSeq(members, LAMBDA unit_id :
                                    unit_ids_data # {} /\ unit_id \notin unit_ids_data)
       IN  [i \in 1..Len(unknown) |->
               "argument_bundle '" \o bundle_id \o "' references unknown unit '"
                   \o unknown[i] \o "'."]

\* one relation of the payload; `if warrants and warrant_id not in warrants`
relation_errors(index, relation, unit_ids_data, warrants_data) ==
    LET at == "relation[" \o StrConcat(str_of_int(index)) \o "]"
        named == DictGet(relation, "warrant_ids", << >>)
        unknown == SelectSeq(named, LAMBDA warrant_id :
                                 /\ has_items(warrants_data)
                                 /\ warrant_id \notin DOMAIN warrants_data)
    IN  (IF relation.src \notin unit_ids_data
         THEN <<at \o " src '" \o relation.src \o "' is not a known unit id.">>
         ELSE << >>)
        \o (IF relation.dst \notin unit_ids_data
            THEN <<at \o " dst '" \o relation.dst \o "' is not a known unit id.">>
            ELSE << >>)
        \o [i \in 1..Len(unknown) |->
               at \o " warrant_id '" \o unknown[i] \o "' is not a known warrant."]
        \o (IF DictGet(relation, "gate_mode", "OR") \notin {"AND", "OR"}
            THEN <<at \o " gate_mode must be AND or OR.">>
            ELSE << >>)

warrant_attack_errors(index, attack, unit_ids_data, warrants_data) ==
    LET at == "warrant_attacks[" \o StrConcat(str_of_int(index)) \o "]"
    IN  (IF attack.src \notin unit_ids_data
         THEN <<at \o " src '" \o attack.src \o "' is not a known unit id.">>
         ELSE << >>)
        \o (IF attack.warrant_id \notin DOMAIN warrants_data
            THEN <<at \o " warrant_id '" \o attack.warrant_id
                       \o "' is not a known warrant.">>
            ELSE << >>)

validate_graph_dict(data) ==
    LET us == DictGet(data, "units", << >>)
        rels == DictGet(data, "relations", << >>)
        cards == DictGet(data, "evidence_cards", << >>)
        docs == DictGet(data, "supporting_documents", << >>)
        bundles == DictGet(data, "argument_bundles", << >>)
        ws == DictGet(data, "warrants", << >>)
        watts == DictGet(data, "warrant_attacks", << >>)
        keys == {us[i][1] : i \in 1..Len(us)}
        of(dict, errors_of(_, _)) ==
            LET ids == sorted(DOMAIN dict)
            IN  concat([i \in 1..Len(ids) |-> errors_of(ids[i], dict[ids[i]])])
    IN  concat([i \in 1..Len(us) |-> unit_errors(us[i][1], us[i][2], cards)])
        \o of(cards, LAMBDA id, card : card_errors(id, card, docs))
        \o of(docs, LAMBDA id, doc : document_errors(id, doc))
        \o of(ws, LAMBDA id, warrant : warrant_errors(id, warrant, cards))
        \o of(bundles, LAMBDA id, bundle : bundle_errors(id, bundle, keys))
        \o concat([i \in 1..Len(rels) |-> relation_errors(i - 1, rels[i], keys, ws)])
        \o concat([i \in 1..Len(watts) |->
                      warrant_attack_errors(i - 1, watts[i], keys, ws)])

\* what is done to the payload between to_dict() and validation: nothing, an
\* entity stored under another key, or a relation appended
TamperKinds ==
    {"none", "unit_key", "warrant_key", "card_key", "document_key", "bundle_key",
     "relation"}

rekeyed(dict, key) ==
    IF ~ has_items(dict) THEN dict
    ELSE LET old == sorted(DOMAIN dict)[1]
         IN  [k \in (DOMAIN dict \ {old}) \cup {key} |->
                 IF k = key THEN dict[old] ELSE dict[k]]

tampered(payload, kind) ==
    CASE kind = "none" -> payload
      [] kind = "unit_key" ->
           [payload EXCEPT !.units =
               [i \in 1..Len(@) |-> IF i = 1 THEN <<"c9", @[i][2]>> ELSE @[i]]]
      [] kind = "warrant_key" -> [payload EXCEPT !.warrants = rekeyed(@, "w9")]
      [] kind = "card_key" -> [payload EXCEPT !.evidence_cards = rekeyed(@, "ev9")]
      [] kind = "document_key" ->
           [payload EXCEPT !.supporting_documents = rekeyed(@, "d9")]
      [] kind = "bundle_key" -> [payload EXCEPT !.argument_bundles = rekeyed(@, "arg_9")]
      [] kind = "relation" ->
           [payload EXCEPT !.relations =
               Append(@, [src |-> "c9", dst |-> "c1", kind |-> "attack"])]

\* loads(json.dumps(payload), validate=True): validate_graph_payload raises
\* ValueError when validate_graph_dict returns errors
loads_validate(kind) ==
    LET payload == tampered(to_dict(SelfGraph, "graph"), kind)
        errors == validate_graph_dict(payload)
    IN  /\ graph_out = NoCall
        /\ graph_out' = [op |-> "loads", tamper |-> kind, payload |-> payload,
                         errors |-> errors, raised |-> errors # << >>]
        /\ UNCHANGED <<units, warrants, relations, warrant_attacks, evidenceVars, copyVars>>

\* the graph that is exported: an axiom claim, a claim with bounds and an
\* evidence item that cites a text span, an axiom warrant with an evidence
\* item, relations with warrants and an AND gate
RoundTripUnitPool ==
    {ArgumentUnit("c1", "Rain", <<Scale>>, TRUE, FALSE, << >>),
     [ArgumentUnit("c2", "Wet", NoValue, FALSE, TRUE,
                   <<[EvidenceItem("ev2", "supports", <<Scale \div 2>>) EXCEPT
                         !.source = TextSpan("paper.pdf", 0, 10, <<0, 0, 1, 1>>)]>>)
        EXCEPT !.evidence_min = <<0>>, !.evidence_max = <<Scale \div 2>>]}

RoundTripWarrantPool ==
    {Warrant("w1", <<Scale>>, TRUE, FALSE,
             <<[EvidenceItem("ev2", "attacks", NoValue) EXCEPT
                   !.source = [doc_id |-> "paper.pdf"]]>>)}

RoundTripRelationPool ==
    {Relation("c1", "c2", "support", <<"w1">>, "AND", << >>),
     Relation("c2", "c1", "attack", << >>, "OR", [note |-> "x"])}

\* matches that disable and restrict the first relation of a graph
CopyMatchPool ==
    {<<PatternMatch("custom", "disable_edge", << >>, <<edge_id(0)>>)>>,
     <<PatternMatch("custom", "restrict_edge", << >>, <<edge_id(0)>>)>>}

\* ------------------------------------------------------------- warrant-gated engine
\* reasoning/warrant_gated.py
\* WarrantGatedConfig with its default alpha, beta, epsilon and
\* clamp_influence; max_iterations and gate_required as the caller sets them
WarrantGatedConfig(max_iterations, gate_required) ==
    [alpha |-> Scale, beta |-> Scale, max_iterations |-> max_iterations,
     epsilon |-> 1, gate_required |-> gate_required,
     clamp_influence |-> 4 * Scale]

min2(x, y) == IF x <= y THEN x ELSE y

max2(x, y) == IF x >= y THEN x ELSE y

abs(x) == IF x >= 0 THEN x ELSE 0 - x

RECURSIVE min(_)
min(values) ==
    IF Len(values) = 1 THEN values[1] ELSE min2(values[1], min(Tail(values)))

RECURSIVE max(_)
max(values) ==
    IF Len(values) = 1 THEN values[1] ELSE max2(values[1], max(Tail(values)))

RECURSIVE sum(_)
sum(values) == IF values = << >> THEN 0 ELSE values[1] + sum(Tail(values))

\* product and quotient of two scores, rounded toward zero
mul(x, y) ==
    IF x * y >= 0 THEN (x * y) \div Scale ELSE 0 - ((0 - x * y) \div Scale)

quot(x, n) == IF x >= 0 THEN x \div n ELSE 0 - ((0 - x) \div n)

_clamp(value, low, high) == max2(low, min2(high, value))

\* 1 / (1 + exp(-z)) at z = 0, 1, ..., 6
SigmoidTable == <<5000, 7311, 8808, 9526, 9820, 9933, 9975>>

RECURSIVE _sigmoid(_)
\* 1 / (1 + exp(-value)): exact at whole numbers, linear in between,
\* sigmoid(-z) = 1 - sigmoid(z)
_sigmoid(value) ==
    IF value < 0 THEN Scale - _sigmoid(0 - value)
    ELSE IF value >= 6 * Scale THEN SigmoidTable[7]
    ELSE LET k == value \div Scale
             lo == SigmoidTable[k + 1]
             hi == SigmoidTable[k + 2]
         IN  lo + ((hi - lo) * (value % Scale)) \div Scale

stance_sign(stance) ==
    IF stance = "supports" THEN 1 ELSE IF stance = "attacks" THEN 0 - 1 ELSE 0

_card_score(card, g, stance) ==
    LET doc_id == card.supporting_doc_id
        trust ==
            IF doc_id \in DOMAIN g.supporting_documents
                  /\ g.supporting_documents[doc_id].trust # NoValue
            THEN _clamp(g.supporting_documents[doc_id].trust[1], 0, Scale)
            ELSE Scale
        confidence == _clamp(card.confidence, 0, Scale)
    IN  stance_sign(stance) * mul(trust, confidence)

_evidence_item_score(item, g) ==
    LET sign == stance_sign(item.stance)
        strength == IF item.strength # NoValue THEN item.strength[1] ELSE Scale
    IN  IF sign = 0 THEN 0
        ELSE IF item.id \in DOMAIN g.evidence_cards
             THEN _card_score(g.evidence_cards[item.id], g, item.stance)
        ELSE sign * _clamp(strength, 0, Scale)

RECURSIVE item_scores(_, _, _)
\* the first loop of _evidence_support: one score per distinct evidence id
item_scores(evidence, seen_ids, g) ==
    IF evidence = << >> THEN << >>
    ELSE IF evidence[1].id \in seen_ids
         THEN item_scores(Tail(evidence), seen_ids, g)
         ELSE <<_evidence_item_score(evidence[1], g)>>
                \o item_scores(Tail(evidence), seen_ids \cup {evidence[1].id}, g)

RECURSIVE card_scores(_, _, _)
\* the second loop of _evidence_support: the cards of evidence_ids that no
\* item and no earlier id has named
card_scores(evidence_ids, seen_ids, g) ==
    IF evidence_ids = << >> THEN << >>
    ELSE IF evidence_ids[1] \in seen_ids
              \/ evidence_ids[1] \notin DOMAIN g.evidence_cards
         THEN card_scores(Tail(evidence_ids), seen_ids, g)
         ELSE <<_card_score(g.evidence_cards[evidence_ids[1]], g, "supports")>>
                \o card_scores(Tail(evidence_ids), seen_ids \cup {evidence_ids[1]}, g)

_evidence_support(node, g) ==
    LET of_items == item_scores(node.evidence, {}, g)
        signed_scores ==
            of_items
                \o card_scores(node.evidence_ids,
                               {node.evidence[i].id : i \in 1..Len(node.evidence)}, g)
    IN  IF signed_scores = << >> THEN 0
        ELSE _clamp(quot(sum(signed_scores), Len(signed_scores)), 0 - Scale, Scale)

\* claim_ev / warrant_ev that reads the evidence of an axiom as of any node
node_ev_of_evidence(node, g) == _evidence_support(node, g)

\* claim_ev / warrant_ev: evidence support, replaced by the clamped declared
\* score for an axiom
node_ev(node, g) ==
    IF node.is_axiom
    THEN _clamp(IF node.score # NoValue THEN node.score[1] ELSE 0, 0 - Scale, Scale)
    ELSE _evidence_support(node, g)

claim_ev_of(g) == [u \in unit_ids(g) |-> node_ev(unit_of(g, u), g)]

warrant_ev_of(g) == [w \in DOMAIN g.warrants |-> node_ev(g.warrants[w], g)]

_update_warrants(g, warrant_ev, claim_scores, cfg) ==
    LET ignore_warrants == {w \in DOMAIN g.warrants : g.warrants[w].ignore_influence}
        \* incoming[w]: one entry per warrant attack, 0 where the attack adds
        \* nothing to this warrant's list
        incoming(w) ==
            [i \in 1..Len(g.warrant_attacks) |->
                IF /\ g.warrant_attacks[i].warrant_id = w
                   /\ w \notin ignore_warrants
                THEN 0 - DictGet(claim_scores, g.warrant_attacks[i].src, 0)
                ELSE 0]
        new_score(w) ==
            LET ev == DictGet(warrant_ev, w, 0)
                influence == IF w \in ignore_warrants THEN 0 ELSE sum(incoming(w))
            IN  _sigmoid(mul(cfg.alpha, ev)
                         + mul(cfg.beta, _clamp(influence, 0 - cfg.clamp_influence,
                                                cfg.clamp_influence)))
    IN  [w \in DOMAIN g.warrants |-> new_score(w)]

\* the gate of one relation: lines 196-206 of _gate_scores
gate_of(relation, warrant_scores, cfg) ==
    IF DictGet(relation.metadata, "gate_disabled", FALSE) THEN 0
    ELSE IF relation.warrant_ids = << >>
         THEN (IF cfg.gate_required THEN 0 ELSE Scale)
    ELSE LET values == [k \in 1..Len(relation.warrant_ids) |->
                           DictGet(warrant_scores, relation.warrant_ids[k],
                                   Scale \div 2)]
         IN  IF relation.gate_mode = "AND" THEN min(values) ELSE max(values)

_gate_scores(g, warrant_scores, cfg) ==
    LET n == Len(g.relations)
        index_of(key) == CHOOSE index \in 0..(n - 1) : edge_id(index) = key
    IN  [key \in {edge_id(index) : index \in 0..(n - 1)} |->
            gate_of(g.relations[index_of(key) + 1], warrant_scores, cfg)]

\* _update_claims that lets relations reach a claim flagged ignore_influence
_update_claims_influenced(g, claim_ev, claim_scores, gate_scores, cfg) ==
    LET incoming(u) ==
            [i \in 1..Len(g.relations) |->
                LET relation == g.relations[i]
                    sign == IF relation.kind = "support" THEN 1 ELSE 0 - 1
                    src_score == DictGet(claim_scores, relation.src, 0)
                    gate == DictGet(gate_scores, edge_id(i - 1), 0)
                IN  IF relation.dst = u THEN sign * mul(src_score, gate) ELSE 0]
        new_score(u) ==
            _sigmoid(mul(cfg.alpha, DictGet(claim_ev, u, 0))
                     + mul(cfg.beta, _clamp(sum(incoming(u)), 0 - cfg.clamp_influence,
                                            cfg.clamp_influence)))
    IN  [u \in unit_ids(g) |-> new_score(u)]

_update_claims(g, claim_ev, claim_scores, gate_scores, cfg) ==
    LET ignore_units == {u \in unit_ids(g) : unit_of(g, u).ignore_influence}
        \* incoming[u]: one entry per relation, 0 where the relation adds
        \* nothing to this claim's list
        incoming(u) ==
            [i \in 1..Len(g.relations) |->
                LET relation == g.relations[i]
                    sign == IF relation.kind = "support" THEN 1 ELSE 0 - 1
                    src_score == DictGet(claim_scores, relation.src, 0)
                    gate == DictGet(gate_scores, edge_id(i - 1), 0)
                IN  IF relation.dst = u /\ relation.dst \notin ignore_units
                    THEN sign * mul(src_score, gate) ELSE 0]
        new_score(u) ==
            LET ev == DictGet(claim_ev, u, 0)
                influence == IF u \in ignore_units THEN 0 ELSE sum(incoming(u))
            IN  _sigmoid(mul(cfg.alpha, ev)
                         + mul(cfg.beta, _clamp(influence, 0 - cfg.clamp_influence,
                                                cfg.clamp_influence)))
    IN  [u \in unit_ids(g) |-> new_score(u)]

\* max over the keys of new of |new[key] - old.get(key, 0.0)|, from 0.0
max_change_of(new, old) ==
    LET diffs == {abs(new[k] - DictGet(old, k, 0)) : k \in DOMAIN new}
    IN  IF diffs = {} THEN 0 ELSE CHOOSE d \in diffs : \A e \in diffs : e <= d

RECURSIVE iterate(_, _, _, _, _)
\* the for-loop of compute_warrant_gated_scores with `left` rounds to go;
\* run carries the scores, the snapshots, the gate scores and the max_change
\* of each round
iterate(g, cfg, claim_ev, warrant_ev, run) ==
    IF run.left = 0 THEN run
    ELSE LET new_warrant_scores ==
                 _update_warrants(g, warrant_ev, run.claim_scores, cfg)
             gate_scores == _gate_scores(g, new_warrant_scores, cfg)
             new_claim_scores ==
                 _update_claims(g, claim_ev, run.claim_scores, gate_scores, cfg)
             max_change ==
                 max2(max_change_of(new_claim_scores, run.claim_scores),
                      max_change_of(new_warrant_scores, run.warrant_scores))
             next ==
                 [left |-> IF max_change < cfg.epsilon THEN 0 ELSE run.left - 1,
                  claim_scores |-> new_claim_scores,
                  warrant_scores |-> new_warrant_scores,
                  claim_iterations |-> Append(run.claim_iterations, new_claim_scores),
                  warrant_iterations |->
                      Append(run.warrant_iterations, new_warrant_scores),
                  gate_iterations |-> Append(run.gate_iterations, gate_scores),
                  max_changes |-> Append(run.max_changes, max_change)]
         IN  iterate(g, cfg, claim_ev, warrant_ev, next)

\* compute_warrant_gated_scores looping over range(max_iterations + 1)
compute_warrant_gated_scores_one_more(g, cfg) ==
    LET claim_ev == claim_ev_of(g)
        warrant_ev == warrant_ev_of(g)
        claim_scores == [u \in DOMAIN claim_ev |-> _sigmoid(mul(cfg.alpha, claim_ev[u]))]
        warrant_scores ==
            [w \in DOMAIN warrant_ev |-> _sigmoid(mul(cfg.alpha, warrant_ev[w]))]
        run == iterate(g, cfg, claim_ev, warrant_ev,
                       [left |-> cfg.max_iterations + 1,
                        claim_scores |-> claim_scores,
                        warrant_scores |-> warrant_scores,
                        claim_iterations |-> <<claim_scores>>,
                        warrant_iterations |-> <<warrant_scores>>,
                        gate_iterations |-> << >>,
                        max_changes |-> << >>])
    IN  [evidence_support |-> claim_ev,
         warrant_evidence_support |-> warrant_ev,
         gate_scores |-> _gate_scores(g, run.warrant_scores, cfg),
         claim_iterations |-> run.claim_iterations,
         warrant_iterations |-> run.warrant_iterations,
         final_claim_scores |-> run.claim_scores,
         final_warrant_scores |-> run.warrant_scores,
         gate_iterations |-> run.gate_iterations,
         max_changes |-> run.max_changes]

\* WarrantGatedResult, and with it the gate scores each round worked with
\* and the max_change each round ended with
compute_warrant_gated_scores(g, cfg) ==
    LET claim_ev == claim_ev_of(g)
        warrant_ev == warrant_ev_of(g)
        claim_scores == [u \in DOMAIN claim_ev |-> _sigmoid(mul(cfg.alpha, claim_ev[u]))]
        warrant_scores ==
            [w \in DOMAIN warrant_ev |-> _sigmoid(mul(cfg.alpha, warrant_ev[w]))]
        run == iterate(g, cfg, claim_ev, warrant_ev,
                       [left |-> cfg.max_iterations,
                        claim_scores |-> claim_scores,
                        warrant_scores |-> warrant_scores,
                        claim_iterations |-> <<claim_scores>>,
                        warrant_iterations |-> <<warrant_scores>>,
                        gate_iterations |-> << >>,
                        max_changes |-> << >>])
    IN  [evidence_support |-> claim_ev,
         warrant_evidence_support |-> warrant_ev,
         gate_scores |-> _gate_scores(g, run.warrant_scores, cfg),
         claim_iterations |-> run.claim_iterations,
         warrant_iterations |-> run.warrant_iterations,
         final_claim_scores |-> run.claim_scores,
         final_warrant_scores |-> run.warrant_scores,
         gate_iterations |-> run.gate_iterations,
         max_changes |-> run.max_changes]

\* the warrant scores _gate_scores is handed: one score per warrant of the graph
ScoreGrid == {Scale \div 5, (9 * Scale) \div 10}

\* a call of _gate_scores(graph, warrant_scores, cfg)
gate_scores_call(warrant_scores, gate_required) ==
    /\ graph_out = NoCall
    /\ graph_out' =
          [op |-> "_gate_scores", warrant_scores |-> warrant_scores,
           gate_required |-> gate_required,
           gate_scores |-> _gate_scores(SelfGraph, warrant_scores,
                                        WarrantGatedConfig(MaxIterations, gate_required))]
    /\ UNCHANGED <<units, warrants, relations, warrant_attacks, evidenceVars, copyVars>>

\* a credibility run on the graph the gate actions were applied to
credibility_call(max_iterations, gate_required) ==
    /\ graph_out.op = "apply_gate_actions"
    /\ graph_out' =
          [op |-> "compute_warrant_gated_scores", gate_required |-> gate_required,
           max_iterations |-> max_iterations,
           result |-> compute_warrant_gated_scores(
                          SelfGraph, WarrantGatedConfig(max_iterations, gate_required))]
    /\ UNCHANGED <<units, warrants, relations, warrant_attacks, evidenceVars, copyVars>>

\* result = compute_warrant_gated_scores(graph, config) on the graph as built
score_call(max_iterations, gate_required) ==
    /\ graph_out = NoCall
    /\ graph_out' =
          [op |-> "compute_warrant_gated_scores", gate_required |-> gate_required,
           max_iterations |-> max_iterations,
           result |-> compute_warrant_gated_scores(
                          SelfGraph, WarrantGatedConfig(max_iterations, gate_required))]
    /\ UNCHANGED <<units, warrants, relations, warrant_attacks, evidenceVars, copyVars>>

\* ------------------------------------------------------------- specifications
DungNext ==
    \/ \E arg \in ArgNames : add_argument(arg) /\ UNCHANGED <<labelVars, outsideDung>>
    \/ \E attacker \in ArgNames : \E target \in ArgNames :
          add_attack(attacker, target) /\ UNCHANGED <<labelVars, outsideDung>>
    \/ iterate_arguments /\ UNCHANGED <<labelVars, outsideDung>>

SpecDung == Init /\ [][DungNext]_vars

LabelNext ==
    \/ \E arg \in ArgNames : add_argument(arg) /\ UNCHANGED <<labelVars, outsideDung>>
    \/ \E attacker \in ArgNames : \E target \in ArgNames :
          add_attack(attacker, target) /\ UNCHANGED <<labelVars, outsideDung>>
    \/ \E semantics \in LabelSemantics :
          labelings_start(semantics) /\ UNCHANGED outsideDung
    \/ labelings_while /\ UNCHANGED outsideDung
    \/ labelings_in_step /\ UNCHANGED outsideDung
    \/ labelings_out_step /\ UNCHANGED outsideDung
    \/ labelings_return /\ UNCHANGED outsideDung

SpecLabel == Init /\ [][LabelNext]_vars

ABANext ==
    \/ \E x \in AssumptionNames : add_assumption(x) /\ UNCHANGED outsideABA
    \/ \E x \in AssumptionNames : \E c \in ContraryValues :
          add_contrary(x, c) /\ UNCHANGED outsideABA
    \/ \E r \in RulePool :
          Len(rules) < MaxRules /\ add_rule(r.head, r.body) /\ UNCHANGED outsideABA
    \/ \E k \in 0..MaxSetSize : to_dung_call(k) /\ UNCHANGED outsideABA

SpecABA == Init /\ [][ABANext]_vars

DeriveNext ==
    \/ \E r \in RulePool :
          Len(rules) < MaxRules /\ add_rule(r.head, r.body) /\ UNCHANGED outsideABA
    \/ \E premises \in SUBSET Symbols : derive_call(premises) /\ UNCHANGED outsideABA

SpecDerive == Init /\ [][DeriveNext]_vars

ComputeNext ==
    \/ \E x \in AssumptionNames : add_assumption(x) /\ UNCHANGED outsideABA
    \/ \E x \in AssumptionNames : \E c \in ContraryValues :
          add_contrary(x, c) /\ UNCHANGED outsideABA
    \/ \E r \in RulePool :
          Len(rules) < MaxRules /\ add_rule(r.head, r.body) /\ UNCHANGED outsideABA
    \/ \E semantics \in ComputeSemantics : compute(semantics) /\ UNCHANGED outsideABA

SpecCompute == Init /\ [][ComputeNext]_vars

GateNext ==
    \/ \E warrant \in WarrantPool : add_warrant(warrant) /\ UNCHANGED outsideGraph
    \/ \E relation \in GateRelationPool :
          Len(relations) < MaxRelations /\ add_relation(relation)
              /\ UNCHANGED outsideGraph
    \/ \E gate_required \in BOOLEAN :
          \E warrant_scores \in [DOMAIN warrants -> ScoreGrid] :
              gate_scores_call(warrant_scores, gate_required) /\ UNCHANGED outsideGraph

SpecGate == Init /\ [][GateNext]_vars


\* a graph is built, then critiqued, then scored
CritiqueNext ==
    \/ \E unit \in UnitPool :
          graph_out = NoCall /\ add_claim(unit) /\ UNCHANGED outsideGraph
    \/ \E warrant \in WarrantPool :
          graph_out = NoCall /\ add_warrant(warrant) /\ UNCHANGED outsideGraph
    \/ \E relation \in RelationPool :
          /\ graph_out = NoCall
          /\ Len(relations) < MaxRelations
          /\ add_relation(relation)
          /\ UNCHANGED outsideGraph
    \/ \E attack \in WarrantAttackPool :
          /\ graph_out = NoCall
          /\ attack \notin SeqRange(warrant_attacks)
          /\ add_warrant_attack(attack.src, attack.warrant_id)
          /\ UNCHANGED outsideGraph
    \/ \E bank \in PatternBanks : detect_patterns_call(bank) /\ UNCHANGED outsideGraph
    \/ apply_detected /\ UNCHANGED outsideGraph
    \/ \E matches \in MatchPool : apply_given(matches) /\ UNCHANGED outsideGraph
    \/ \E max_iterations \in 1..MaxIterations : \E gate_required \in BOOLEAN :
          credibility_call(max_iterations, gate_required) /\ UNCHANGED outsideGraph

SpecCritique == Init /\ [][CritiqueNext]_vars

TreeNext ==
    \/ \E x \in AssumptionNames : add_assumption(x) /\ UNCHANGED outsideABA
    \/ \E x \in AssumptionNames : \E c \in TreeContraryValues :
          add_contrary(x, c) /\ UNCHANGED outsideABA
    \/ \E r \in TreeRulePool :
          Len(rules) < MaxRules /\ add_rule(r.head, r.body) /\ UNCHANGED outsideABA
    \/ \E root \in TreeRoots : \E max_depth \in 0..MaxDepth :
          build_dispute_tree_call(root, max_depth) /\ UNCHANGED outsideABA

SpecTree == Init /\ [][TreeNext]_vars

\* an ABA framework is built, translated by to_dung() and labelled
CompositeNext ==
    \/ \E x \in AssumptionNames :
          /\ aba_out = NoCall
          /\ add_assumption(x)
          /\ UNCHANGED outsideABA
    \/ \E x \in CompositeContraryKeys : \E c \in CompositeContraryValues :
          /\ aba_out = NoCall
          /\ add_contrary(x, c)
          /\ UNCHANGED outsideABA
    \/ \E r \in CompositeRulePool :
          /\ aba_out = NoCall
          /\ Len(rules) < MaxRules
          /\ add_rule(r.head, r.body)
          /\ UNCHANGED outsideABA
    \/ to_dung_af /\ UNCHANGED <<labelVars, graphVars>>
    \/ aba_out # NoCall /\ labelings_start("grounded") /\ UNCHANGED outsideDung
    \/ labelings_while /\ UNCHANGED outsideDung
    \/ labelings_in_step /\ UNCHANGED outsideDung
    \/ labelings_out_step /\ UNCHANGED outsideDung
    \/ labelings_return /\ UNCHANGED outsideDung

SpecComposite == Init /\ [][CompositeNext]_vars

\* graphs built claim by claim and relation by relation, then diagnosed
DiagnosticsNext ==
    \/ \E unit \in DiagnosticsUnitPool : add_claim(unit) /\ UNCHANGED outsideGraph
    \/ \E relation \in DiagnosticsRelationPool :
          Len(relations) < MaxEdges /\ add_relation(relation) /\ UNCHANGED outsideGraph
    \/ diagnostics /\ UNCHANGED outsideGraph

SpecDiagnostics == Init /\ [][DiagnosticsNext]_vars

\* a graph is built with every kind of entity, exported and restored; then
\* both graphs are worked on
RoundTripNext ==
    \/ \E unit \in RoundTripUnitPool :
          restored = << >> /\ add_claim(unit) /\ UNCHANGED outsideGraph
    \/ \E warrant \in RoundTripWarrantPool :
          restored = << >> /\ add_warrant(warrant) /\ UNCHANGED outsideGraph
    \/ \E relation \in RoundTripRelationPool :
          /\ restored = << >>
          /\ Len(relations) < MaxRelations
          /\ add_relation(relation)
          /\ UNCHANGED outsideGraph
    \/ \E attack \in WarrantAttackPool :
          /\ restored = << >>
          /\ attack \notin SeqRange(warrant_attacks)
          /\ add_warrant_attack(attack.src, attack.warrant_id)
          /\ UNCHANGED outsideGraph
    \/ \E document \in SupportingDocumentPool :
          restored = << >> /\ add_supporting_document(document) /\ UNCHANGED outsideGraph
    \/ \E card \in EvidenceCardPool :
          /\ restored = << >>
          /\ card.supporting_doc_id \in DOMAIN supporting_documents
          /\ add_evidence_card(card)
          /\ UNCHANGED outsideGraph
    \/ /\ restored = << >>
       /\ \A i \in 1..Len(units) : Len(units[i].evidence) < MaxEvidence
       /\ attach_evidence_card("c2", "ev1", "supports")
       /\ UNCHANGED outsideGraph
    \/ /\ restored = << >>
       /\ define_argument(<<"c1", "c2">>, "arg_1")
       /\ UNCHANGED outsideGraph
    \/ from_dict_call /\ UNCHANGED outsideGraph
    \/ \E relation \in RoundTripRelationPool :
          /\ restored # << >>
          /\ Len(restored[1].relations) < MaxRelations
          /\ restored_add_relation(relation)
          /\ UNCHANGED outsideGraph
    \/ \E matches \in CopyMatchPool :
          restored_apply_given(matches) /\ UNCHANGED outsideGraph
    \/ \E matches \in CopyMatchPool : apply_given(matches) /\ UNCHANGED outsideGraph

SpecRoundTrip == Init /\ [][RoundTripNext]_vars

\* a graph is built, exported, and the payload is validated as it is or
\* after a change made by hand
ValidateNext ==
    \/ \E unit \in RoundTripUnitPool :
          graph_out = NoCall /\ add_claim(unit) /\ UNCHANGED outsideGraph
    \/ \E warrant \in RoundTripWarrantPool :
          graph_out = NoCall /\ add_warrant(warrant) /\ UNCHANGED outsideGraph
    \/ \E relation \in RoundTripRelationPool :
          /\ graph_out = NoCall
          /\ Len(relations) < MaxRelations
          /\ add_relation(relation)
          /\ UNCHANGED outsideGraph
    \/ \E attack \in WarrantAttackPool :
          /\ graph_out = NoCall
          /\ attack \notin SeqRange(warrant_attacks)
          /\ add_warrant_attack(attack.src, attack.warrant_id)
          /\ UNCHANGED outsideGraph
    \/ \E document \in SupportingDocumentPool :
          graph_out = NoCall /\ add_supporting_document(document) /\ UNCHANGED outsideGraph
    \/ \E card \in EvidenceCardPool :
          graph_out = NoCall /\ add_evidence_card(card) /\ UNCHANGED outsideGraph
    \/ /\ graph_out = NoCall
       /\ \A i \in 1..Len(units) : Len(units[i].evidence) < MaxEvidence
       /\ attach_evidence_card("c2", "ev1", "supports")
       /\ UNCHANGED outsideGraph
    \/ /\ graph_out = NoCall
       /\ define_argument(<<"c1", "c2">>, "arg_1")
       /\ UNCHANGED outsideGraph
    \/ \E kind \in TamperKinds : loads_validate(kind) /\ UNCHANGED outsideGraph

SpecValidate == Init /\ [][ValidateNext]_vars

\* the mutators of an ArgumentGraph, in any order
GraphNext ==
    \/ \E unit \in GraphUnitPool :
          /\ Len(units) < MaxUnits
          /\ add_claim(unit)
          /\ UNCHANGED outsideGraph
    \/ /\ Len(units) < MaxUnits
       /\ add_claim_without_id(UnitWithoutId)
       /\ UNCHANGED outsideGraph
    \/ \E warrant \in WarrantPool : add_warrant(warrant) /\ UNCHANGED outsideGraph
    \/ \E warrant \in WarrantsWithoutId :
          add_warrant_without_id(warrant) /\ UNCHANGED outsideGraph
    \/ \E relation \in GraphRelationPool :
          /\ Len(relations) < MaxRelations
          /\ add_relation(relation)
          /\ UNCHANGED outsideGraph
    \/ \E attack \in WarrantAttackPool :
          /\ attack \notin SeqRange(warrant_attacks)
          /\ add_warrant_attack(attack.src, attack.warrant_id)
          /\ UNCHANGED outsideGraph
    \/ /\ \A i \in 1..Len(units) : Len(units[i].evidence) < MaxEvidence
       /\ attach_evidence("c1", "ev2", "supports", NoValue)
       /\ UNCHANGED outsideGraph
    \/ /\ \A w \in DOMAIN warrants : Len(warrants[w].evidence) < MaxEvidence
       /\ attach_evidence_to_warrant("w1", "ev2", "supports", NoValue)
       /\ UNCHANGED outsideGraph
    \/ \E card \in EvidenceCardPool : add_evidence_card(card) /\ UNCHANGED outsideGraph
    \/ /\ \A i \in 1..Len(units) : Len(units[i].evidence) < MaxEvidence
       /\ attach_evidence_card("c1", "ev1", "supports")
       /\ UNCHANGED outsideGraph

SpecGraph == Init /\ [][GraphNext]_vars

\* a graph is built, then scored
ScoreNext ==
    \/ \E unit \in ScoreUnitPool :
          graph_out = NoCall /\ add_claim(unit) /\ UNCHANGED outsideGraph
    \/ \E warrant \in ScoreWarrantPool :
          graph_out = NoCall /\ add_warrant(warrant) /\ UNCHANGED outsideGraph
    \/ \E relation \in ScoreRelationPool :
          /\ graph_out = NoCall
          /\ Len(relations) < MaxRelations
          /\ add_relation(relation)
          /\ UNCHANGED outsideGraph
    \/ \E attack \in ScoreWarrantAttackPool :
          /\ graph_out = NoCall
          /\ attack \notin SeqRange(warrant_attacks)
          /\ add_warrant_attack(attack.src, attack.warrant_id)
          /\ UNCHANGED outsideGraph
    \/ \E max_iterations \in 0..MaxIterations : \E gate_required \in BOOLEAN :
          score_call(max_iterations, gate_required) /\ UNCHANGED outsideGraph

SpecScore == Init /\ [][ScoreNext]_vars

\* a claim is given evidence items and evidence cards, then scored
EvidenceNext ==
    \/ \E unit \in EvidenceUnitPool :
          graph_out = NoCall /\ add_claim(unit) /\ UNCHANGED outsideGraph
    \/ \E document \in SupportingDocumentPool :
          graph_out = NoCall /\ add_supporting_document(document)
              /\ UNCHANGED outsideGraph
    \/ \E card \in EvidenceCardPool :
          graph_out = NoCall /\ add_evidence_card(card) /\ UNCHANGED outsideGraph
    \/ \E evidence_id \in EvidenceIds : \E item \in EvidencePool :
          /\ graph_out = NoCall
          /\ \A i \in 1..Len(units) : Len(units[i].evidence) < MaxEvidence
          /\ attach_evidence("c2", evidence_id, item.stance, item.strength)
          /\ UNCHANGED outsideGraph
    \/ \E evidence_id \in EvidenceIds : \E stance \in {"supports", "attacks"} :
          /\ graph_out = NoCall
          /\ \A i \in 1..Len(units) : Len(units[i].evidence) < MaxEvidence
          /\ attach_evidence_card("c2", evidence_id, stance)
          /\ UNCHANGED outsideGraph
    \/ \E max_iterations \in 1..MaxIterations : \E gate_required \in BOOLEAN :
          score_call(max_iterations, gate_required) /\ UNCHANGED outsideGraph

SpecEvidence == Init /\ [][EvidenceNext]_vars

\* ------------------------------------------------------------- C1 .. C4
Observed == arg_iter # Unobserved

\* C1: in every framework the mutators can build, every stable extension is
\* a preferred extension, every preferred extension is a complete extension
\* and every complete extension is an admissible set.
C1_ExtensionInclusions ==
    Observed =>
        /\ SeqRange(stable_extensions(SelfAF)) \subseteq SeqRange(preferred_extensions(SelfAF))
        /\ SeqRange(preferred_extensions(SelfAF)) \subseteq SeqRange(complete_extensions(SelfAF))
        /\ SeqRange(complete_extensions(SelfAF)) \subseteq SeqRange(admissible_sets(SelfAF))

\* a framework with a stable extension in which the four families differ
C1_Witness ==
    /\ Observed
    /\ Len(stable_extensions(SelfAF)) >= 1
    /\ Len(preferred_extensions(SelfAF)) < Len(complete_extensions(SelfAF))
    /\ Len(complete_extensions(SelfAF)) < Len(admissible_sets(SelfAF))

RECURSIVE DefenseLfp(_, _)
\* least fixed point of F(S) = {a : S defends a}, iterated from S
DefenseLfp(af, S) ==
    LET T == {a \in af.arguments : defends(af, S, a)}
    IN  IF T = S THEN S ELSE DefenseLfp(af, T)

IsChainABC ==
    /\ arguments = {"a", "b", "c"}
    /\ attacks = {<<"a", "b">>, <<"b", "c">>}

\* C2: the grounded extension is the least fixed point of the defense
\* operator, is one of the complete extensions and is contained in every
\* preferred extension; for the chain a -> b -> c it is {a, c}.
C2_GroundedIsLeastFixedPoint ==
    Observed =>
        LET g == grounded_extension(SelfAF)
            preferred == preferred_extensions(SelfAF)
        IN  /\ g = DefenseLfp(SelfAF, {})
            /\ g \in SeqRange(complete_extensions(SelfAF))
            /\ \A i \in 1..Len(preferred) : g \subseteq preferred[i]
            /\ IsChainABC => g = {"a", "c"}

C2_Witness ==
    /\ Observed
    /\ IsChainABC
    /\ grounded_extension(SelfAF) = {"a", "c"}

IsMutualAB ==
    /\ arguments = {"a", "b"}
    /\ attacks = {<<"a", "b">>, <<"b", "a">>}

\* C4 (as claimed): for arguments {a, b} with a -> b and b -> a the preferred
\* and the stable extensions are the same list, and that list is [{a}, {b}].
C4_MutualAttackLists ==
    (Observed /\ IsMutualAB) =>
        /\ preferred_extensions(SelfAF) = stable_extensions(SelfAF)
        /\ preferred_extensions(SelfAF) = <<{"a"}, {"b"}>>

\* ------------------------------------------------------------- C3
\* the framework of the state, listed in sorted order (the grounded
\* extension does not depend on the order)
SortedAF == AF(arguments, attacks, sorted(arguments))

Propagating == lab_pc \in {"while", "in_loop", "out_loop", "done"}

LabelledAs(l) == {arg \in arguments : labels[arg] = l}

\* C3: labelings("grounded") ends after at most |arguments| + 1 rounds of
\* its while-loop; the labeling it returns has the grounded extension as its
\* "in" arguments, the arguments attacked by an "in" argument as its "out"
\* arguments and every other argument "undec"; and while it runs a label
\* only ever changes from "undec" to "in" or "out".
C3_GroundedLabeling ==
    /\ [](Propagating =>
            /\ DOMAIN labels = arguments
            /\ \A arg \in arguments : labels[arg] \in {"in", "out", "undec"}
            /\ lab_rounds <= Cardinality(arguments) + 1
            /\ lab_i <= Cardinality(arguments) + 1)
    /\ [](lab_pc = "done" =>
            /\ LabelledAs("in") = grounded_extension(SortedAF)
            /\ LabelledAs("out") =
                  {arg \in arguments :
                      \E attacker \in attackers_of(SortedAF, arg) :
                          labels[attacker] = "in"}
            /\ LabelledAs("undec") = arguments \ (LabelledAs("in") \cup LabelledAs("out")))
    /\ [][(Propagating /\ lab_pc' # "idle") =>
            \A arg \in arguments :
                labels'[arg] # labels[arg] =>
                    labels[arg] = "undec" /\ labels'[arg] \in {"in", "out"}]_vars

\* a finished labeling with all three labels in use, after a round that
\* changed labels and the round that found nothing left to change
C3_Witness ==
    /\ lab_pc = "done"
    /\ lab_rounds >= 2
    /\ LabelledAs("in") # {}
    /\ LabelledAs("out") # {}
    /\ LabelledAs("undec") # {}

\* ------------------------------------------------------------- C5 .. C8
Called(op) == aba_out.op = op

\* the least superset of P closed under the rules
LeastClosed(rls, P) ==
    LET U == P \cup {rls[i].head : i \in 1..Len(rls)}
        closed(X) ==
            \A i \in 1..Len(rls) :
                SeqRange(rls[i].body) \subseteq X => rls[i].head \in X
        supersets == {X \in SUBSET U : P \subseteq X /\ closed(X)}
    IN  {x \in U : \A X \in supersets : x \in X}

\* label(S): the member itself, or "{" + sorted members joined by "&" + "}"
LabelOfSet(S) ==
    IF Cardinality(S) = 1 THEN CHOOSE x \in S : TRUE
    ELSE "{" \o StrConcat(JoinChars(sorted(S), "&")) \o "}"

AttackerSets(k) == {S \in SUBSET assumptions : S # {} /\ Cardinality(S) <= k}

\* the attacks the claim describes, for targets drawn from `targets`
AttacksOnto(k, targets) ==
    {<<LabelOfSet(st[1]), st[2]>> :
        st \in {st \in AttackerSets(k) \X (targets \cap DOMAIN contraries) :
                   contraries[st[2]] \in LeastClosed(rules, st[1])}}

IsC5Example ==
    /\ assumptions = {"a", "b", "c"}
    /\ contraries = [t \in {"c"} |-> "p"]
    /\ rules = <<Rule("p", <<"a", "b">>)>>

\* C5 (as claimed): to_dung(k) keeps every assumption as an argument, and its
\* attacks are exactly the pairs (label(S), t) with S a non-empty set of at
\* most k assumptions, t an assumption that has a contrary, and contrary(t)
\* in the rule closure of S (so ({a&b}, c) for assumptions {a,b,c},
\* contrary(c) = p, rule p <- a,b and k = 2); no attack targets a symbol that
\* is not an assumption.
C5_ToDungAttacks ==
    Called("to_dung") =>
        /\ assumptions \subseteq aba_out.af.arguments
        /\ aba_out.af.attacks = AttacksOnto(aba_out.k, assumptions)
        /\ (IsC5Example /\ aba_out.k = 2) => <<"{a&b}", "c">> \in aba_out.af.attacks
        /\ \A pr \in aba_out.af.attacks : pr[2] \in assumptions

\* what to_dung does instead: the targets are the keys of `contraries`,
\* assumptions or not
C5_AttacksOntoContraryKeys ==
    Called("to_dung") =>
        /\ assumptions \subseteq aba_out.af.arguments
        /\ aba_out.af.attacks = AttacksOnto(aba_out.k, DOMAIN contraries)
        /\ (IsC5Example /\ aba_out.k = 2) => <<"{a&b}", "c">> \in aba_out.af.attacks

IsC6Framework ==
    /\ assumptions = {"a", "b"}
    /\ contraries = [t \in {"b"} |-> "p"]
    /\ rules = <<Rule("p", <<"a">>)>>

DefaultToDung == Called("to_dung") /\ aba_out.k = DefaultSetSize

\* C6 (as claimed): for assumptions {a, b}, contrary(b) = p and the rule
\* p <- a, to_dung() with the default set size returns exactly the attack
\* relation {(a, b)}.
C6_OnlySingletonAttack ==
    (IsC6Framework /\ DefaultToDung) => aba_out.af.attacks = {<<"a", "b">>}

\* C6 (amended): ... returns an attack relation that contains (a, b) and,
\* because the pair {a, b} derives p as well, the attack ({a&b}, b), and no
\* other attack.
C6_SingletonAndPairAttack ==
    (IsC6Framework /\ DefaultToDung) =>
        /\ <<"a", "b">> \in aba_out.af.attacks
        /\ aba_out.af.attacks = {<<"a", "b">>, <<"{a&b}", "b">>}

C6_Witness ==
    /\ IsC6Framework
    /\ DefaultToDung
    /\ <<"{a&b}", "b">> \in aba_out.af.attacks

\* C7: _derive ends after at most len(rules) + 1 passes over the rule list
\* and returns the least set that contains the premises and is closed under
\* the rules (an empty body always fires); a larger premise set never
\* derives less.
C7_DeriveLeastClosure ==
    Called("derive") =>
        /\ aba_out.result.passes <= Len(rules) + 1
        /\ aba_out.result.derived = LeastClosed(rules, aba_out.premises)
        /\ aba_out.premises \subseteq aba_out.result.derived
        /\ \A i \in 1..Len(rules) :
              SeqRange(rules[i].body) \subseteq aba_out.result.derived
                  => rules[i].head \in aba_out.result.derived
        /\ \A i \in 1..Len(rules) :
              rules[i].body = << >> => rules[i].head \in aba_out.result.derived
        /\ \A Q \in SUBSET Symbols :
              aba_out.premises \subseteq Q
                  => aba_out.result.derived \subseteq _derive(rules, Q)

\* a closure that needs a second productive pass (a rule listed before the
\* rule that makes its body true) next to a rule that does not fire
C7_Witness ==
    /\ Called("derive")
    /\ aba_out.result.passes = Len(rules) + 1
    /\ Len(rules) >= 2
    /\ aba_out.result.derived # aba_out.premises

SupportedNames == {"grounded", "preferred", "stable", "complete"}

\* the extensions of to_dung() for a semantics, as the Dung engine gives them
DungExtensions(semantics) ==
    LET af0 == to_dung(DefaultSetSize)
    IN  extensions(AF(af0.arguments, af0.attacks, sorted(af0.arguments)), semantics)

IsSortedList(l) == \A i \in 1..Len(l) : \A j \in 1..Len(l) : i < j => StrLess(l[i], l[j])

ResultFieldsFilled ==
    /\ aba_out.result.assumptions = sorted(assumptions)
    /\ aba_out.result.contraries = contraries
    /\ aba_out.result.rules = rules

NoContraryDerivable ==
    \A t \in DOMAIN contraries : contraries[t] \notin _derive(rules, assumptions)

\* C8 (as claimed): a semantics name that is not one of grounded, preferred,
\* stable, complete makes compute return the empty extension list.
C8_OtherNamesGiveEmptyList ==
    (Called("compute") /\ aba_out.result.semantics \notin SupportedNames)
        => aba_out.result.extensions = << >>

\* C8 (amended): compute(semantics) returns the extensions of to_dung() for
\* that semantics, each as a sorted list (all assumptions as the single
\* preferred extension when no contrary is derivable); when the name is not,
\* after lower-casing, one of grounded/preferred/stable/complete,
\* extensions(name) raises and compute returns the empty list with the other
\* fields filled in; compute never modifies the framework.
C8_ComputeExtensions ==
    /\ [](Called("compute") =>
            LET sem == aba_out.result.semantics
                exts == aba_out.result.extensions
                dung == DungExtensions(sem)
            IN  /\ ResultFieldsFilled
                /\ \A i \in 1..Len(exts) : IsSortedList(exts[i])
                /\ sem \in SupportedNames \cup {"STABLE"} =>
                      /\ ~ dung.raised
                      /\ Len(exts) = Len(dung.value)
                      /\ {SeqRange(exts[i]) : i \in 1..Len(exts)} = SeqRange(dung.value)
                /\ sem \notin SupportedNames \cup {"STABLE"} =>
                      /\ dung.raised
                      /\ exts = << >>
                /\ (sem = "preferred" /\ NoContraryDerivable) =>
                      exts = <<sorted(assumptions)>>)
    /\ [][(Called("compute"))' =>
            <<assumptions, contraries, rules>>' = <<assumptions, contraries, rules>>]_vars

\* an upper-case name answered with a non-empty extension list, and a
\* refused name, both seen on a framework with an attack
C8_Witness ==
    /\ Called("compute")
    /\ aba_out.result.semantics = "STABLE"
    /\ aba_out.result.extensions # << >>
    /\ to_dung(DefaultSetSize).attacks # {}

\* ------------------------------------------------------------- C9 .. C10
GraphCalled(op) == graph_out.op = op

\* "e<i>" written out for a one-digit position
EdgeKey(i) == <<"e", DigitChars[i + 1]>>

MarkedDisabled(relation) ==
    /\ "gate_disabled" \in DOMAIN relation.metadata
    /\ relation.metadata["gate_disabled"] = TRUE

IsLeast(v, S) == v \in S /\ \A x \in S : v <= x

IsGreatest(v, S) == v \in S /\ \A x \in S : v >= x

\* the gate the claim gives a relation, from the set of scores it combines
GateRule(relation, scores, gate_required, gate) ==
    IF MarkedDisabled(relation) THEN gate = 0
    ELSE IF relation.warrant_ids = << >>
         THEN gate = (IF gate_required THEN 0 ELSE Scale)
    ELSE IF relation.gate_mode = "AND" THEN IsLeast(gate, scores)
    ELSE IsGreatest(gate, scores)

\* the current scores of the warrants a relation cites
CitedWarrantScores(relation, warrant_scores) ==
    {warrant_scores[w] : w \in SeqRange(relation.warrant_ids) \cap DOMAIN warrant_scores}

\* what the engine combines: a cited id without a score counts as 0.5
LookedUpScores(relation, warrant_scores) ==
    {DictGet(warrant_scores, w, Scale \div 2) : w \in SeqRange(relation.warrant_ids)}

OneKeyPerRelation(gate_scores) ==
    /\ Cardinality(DOMAIN gate_scores) = Len(relations)
    /\ \A i \in 0..(Len(relations) - 1) : EdgeKey(i) \in DOMAIN gate_scores

\* C9 (as claimed): _gate_scores returns exactly one key "e<i>" per relation,
\* and the score under it is 0 for a relation marked gate_disabled; else,
\* without cited warrants, 0 if gate_required and 1 if not; else the minimum
\* (gate_mode AND) or the maximum (OR) of the current scores of the warrants
\* the relation cites, so 0.2 and 0.9 for warrant scores [0.2, 0.9].
C9_GateScores ==
    GraphCalled("_gate_scores") =>
        /\ OneKeyPerRelation(graph_out.gate_scores)
        /\ \A i \in 0..(Len(relations) - 1) :
              GateRule(relations[i + 1],
                       CitedWarrantScores(relations[i + 1], graph_out.warrant_scores),
                       graph_out.gate_required,
                       graph_out.gate_scores[EdgeKey(i)])

\* what _gate_scores returns: the same rule over the looked-up scores, where
\* a cited id that is no warrant of the graph enters as 0.5
C9_GateScoresOverLookups ==
    GraphCalled("_gate_scores") =>
        /\ OneKeyPerRelation(graph_out.gate_scores)
        /\ \A i \in 0..(Len(relations) - 1) :
              GateRule(relations[i + 1],
                       LookedUpScores(relations[i + 1], graph_out.warrant_scores),
                       graph_out.gate_required,
                       graph_out.gate_scores[EdgeKey(i)])
        /\ \A i \in 0..(Len(relations) - 1) :
              (/\ graph_out.warrant_scores =
                      [w \in WarrantIds |->
                          IF w = "w1" THEN Scale \div 5 ELSE (9 * Scale) \div 10]
               /\ relations[i + 1].warrant_ids = <<"w1", "w2">>)
                  => graph_out.gate_scores[EdgeKey(i)] =
                        (IF relations[i + 1].gate_mode = "AND"
                         THEN Scale \div 5 ELSE (9 * Scale) \div 10)

\* the example of the claim, with a disabled relation next to it
C9_Example ==
    /\ GraphCalled("_gate_scores")
    /\ Len(relations) = 2
    /\ \E i \in 1..2 : MarkedDisabled(relations[i])
    /\ \E i \in 1..2 :
          /\ relations[i].warrant_ids = <<"w1", "w2">>
          /\ relations[i].gate_mode = "AND"
          /\ graph_out.gate_scores[EdgeKey(i - 1)] = Scale \div 5

\* an edge id that names the relation at position i: "e" and the decimal
\* numeral of i, with or without leading zeros
Names(id, i) ==
    \E zeros \in 0..2 :
        id = <<"e">> \o [k \in 1..zeros |-> "0"] \o <<DigitChars[i + 1]>>

NamedBy(matches, action, i) ==
    \E k \in 1..Len(matches) :
        /\ matches[k].action = action
        /\ \E j \in 1..Len(matches[k].edges) : Names(matches[k].edges[j], i)

\* a step that is a call of apply_gate_actions
Applied == graph_out.op # "apply_gate_actions" /\ graph_out'.op = "apply_gate_actions"

Positions == 0..(Len(relations) - 1)

\* the graph without the relations marked gate_disabled
WithoutDisabled(g) ==
    [g EXCEPT !.relations = SelectSeq(@, LAMBDA r : ~ MarkedDisabled(r))]

\* C10: after detect_patterns and apply_gate_actions every relation named by
\* a disable_edge match is marked gate_disabled and every relation named by
\* a restrict_edge match has gate_mode AND (for matches of the caller's own
\* making too, unless the call raised); apply_gate_actions keeps the number
\* of relations and their src, dst, kind and warrant_ids, and leaves a
\* relation that no disable_edge or restrict_edge match names as it was
\* (flag_edge matches, ill-formed and out-of-range ids change nothing); in a
\* later credibility run a relation marked gate_disabled has gate score 0 in
\* every round and in the final gate_scores, and all scores are what they
\* would be without that relation.
C10_DisabledEdgesStayClosed ==
    /\ [][Applied =>
            LET matches == graph_out'.matches
            IN  /\ graph_out.op = "detect_patterns" =>
                      matches = graph_out.matches /\ ~ graph_out'.raised
                /\ ~ graph_out'.raised =>
                      \A i \in Positions :
                          /\ NamedBy(matches, "disable_edge", i)
                                => MarkedDisabled(relations'[i + 1])
                          /\ NamedBy(matches, "restrict_edge", i)
                                => relations'[i + 1].gate_mode = "AND"
                /\ Len(relations') = Len(relations)
                /\ \A i \in Positions :
                      /\ relations'[i + 1].src = relations[i + 1].src
                      /\ relations'[i + 1].dst = relations[i + 1].dst
                      /\ relations'[i + 1].kind = relations[i + 1].kind
                      /\ relations'[i + 1].warrant_ids = relations[i + 1].warrant_ids
                      /\ (/\ ~ NamedBy(matches, "disable_edge", i)
                          /\ ~ NamedBy(matches, "restrict_edge", i))
                            => relations'[i + 1] = relations[i + 1]
                /\ UNCHANGED <<units, warrants, warrant_attacks>>]_vars
    /\ [](GraphCalled("compute_warrant_gated_scores") =>
            LET result == graph_out.result
                open == compute_warrant_gated_scores(
                            WithoutDisabled(SelfGraph),
                            WarrantGatedConfig(graph_out.max_iterations,
                                               graph_out.gate_required))
            IN  /\ \A i \in Positions :
                      MarkedDisabled(relations[i + 1]) =>
                          /\ result.gate_scores[EdgeKey(i)] = 0
                          /\ \A k \in 1..Len(result.gate_iterations) :
                                result.gate_iterations[k][EdgeKey(i)] = 0
                /\ result.claim_iterations = open.claim_iterations
                /\ result.warrant_iterations = open.warrant_iterations
                /\ result.final_claim_scores = open.final_claim_scores)

\* a run with gate_required off on a graph where detect_patterns and
\* apply_gate_actions closed a relation without warrants (whose gate would be
\* 1 otherwise) next to a relation whose gate stays open
C10_Witness ==
    /\ GraphCalled("compute_warrant_gated_scores")
    /\ ~ graph_out.gate_required
    /\ Len(graph_out.result.gate_iterations) >= 2
    /\ \E i \in Positions :
          /\ MarkedDisabled(relations[i + 1])
          /\ relations[i + 1].warrant_ids = << >>
          /\ relations[i + 1].metadata["gate_action"] \in PatternIds
          /\ {relations[i + 1].src, relations[i + 1].dst} \subseteq unit_ids(SelfGraph)
    /\ \E i \in Positions :
          /\ ~ MarkedDisabled(relations[i + 1])
          /\ graph_out.result.gate_scores[EdgeKey(i)] > 0

\* ------------------------------------------------------------- C11 .. C13
\* the result of the credibility run the state holds
Scored == GraphCalled("compute_warrant_gated_scores")

ScoreResult == graph_out.result

\* sigmoid(alpha * evidence support) of a claim or warrant of the graph
BaseScore(node) == _sigmoid(mul(Scale, node_ev(node, SelfGraph)))

\* C11: in a warrant-gated credibility run a claim flagged ignore_influence
\* has the score sigmoid(alpha * its evidence support) in the initial
\* snapshot, in every iteration snapshot and in the final scores, whatever
\* relations target it; a warrant flagged ignore_influence keeps its initial
\* score whatever warrant attacks target it; with axiom score -1.0 the
\* final score of such a claim is below 0.5.
C11_IgnoreInfluenceKeepsBase ==
    Scored =>
        /\ \A i \in 1..Len(units) :
              units[i].ignore_influence =>
                  /\ \A k \in 1..Len(ScoreResult.claim_iterations) :
                        ScoreResult.claim_iterations[k][units[i].id] = BaseScore(units[i])
                  /\ ScoreResult.final_claim_scores[units[i].id] = BaseScore(units[i])
                  /\ (units[i].is_axiom /\ units[i].score = <<0 - Scale>>)
                        => ScoreResult.final_claim_scores[units[i].id] < Scale \div 2
        /\ \A w \in DOMAIN warrants :
              warrants[w].ignore_influence =>
                  /\ \A k \in 1..Len(ScoreResult.warrant_iterations) :
                        ScoreResult.warrant_iterations[k][w]
                            = ScoreResult.warrant_iterations[1][w]
                  /\ ScoreResult.final_warrant_scores[w]
                        = ScoreResult.warrant_iterations[1][w]

\* a run on a graph where an open support relation from a scored claim
\* targets an ignore_influence axiom of score -1.0 and a warrant attack
\* targets an ignore_influence warrant
C11_Witness ==
    /\ Scored
    /\ Len(ScoreResult.claim_iterations) >= 2
    /\ \E i \in 1..Len(units) :
          /\ units[i].ignore_influence
          /\ units[i].is_axiom
          /\ units[i].score = <<0 - Scale>>
          /\ \E r \in 1..Len(relations) :
                /\ relations[r].dst = units[i].id
                /\ relations[r].kind = "support"
                /\ relations[r].src \in unit_ids(SelfGraph)
                /\ ScoreResult.gate_scores[edge_id(r - 1)] > 0
    /\ \E w \in DOMAIN warrants :
          /\ warrants[w].ignore_influence
          /\ \E a \in 1..Len(warrant_attacks) :
                /\ warrant_attacks[a].warrant_id = w
                /\ warrant_attacks[a].src \in unit_ids(SelfGraph)

\* the first item of each distinct evidence id, in the order of attachment
FirstItems(evidence) ==
    SelectSeq([i \in 1..Len(evidence) |->
                  [item |-> evidence[i],
                   first |-> \A j \in 1..(i - 1) : evidence[j].id # evidence[i].id]],
              LAMBDA e : e.first)

\* stance sign * card confidence * document trust if the id is a card of
\* the graph, else stance sign * item strength (1.0 when absent)
Contribution(item) ==
    LET sign == CASE item.stance = "supports" -> 1
                  [] item.stance = "attacks" -> 0 - 1
                  [] OTHER -> 0
    IN  IF item.id \in DOMAIN evidence_cards
        THEN LET card == evidence_cards[item.id]
                 trust == IF card.supporting_doc_id \in DOMAIN supporting_documents
                          THEN supporting_documents[card.supporting_doc_id].trust[1]
                          ELSE Scale
             IN  sign * ((trust * card.confidence) \div Scale)
        ELSE sign * (IF item.strength = NoValue THEN Scale ELSE item.strength[1])

\* the mean of the contributions, toward zero
MeanContribution(unit) ==
    LET firsts == FirstItems(unit.evidence)
        total == sum([i \in 1..Len(firsts) |-> Contribution(firsts[i].item)])
    IN  IF firsts = << >> THEN 0
        ELSE IF total >= 0 THEN total \div Len(firsts)
        ELSE 0 - ((0 - total) \div Len(firsts))

Within(value, low, high) ==
    IF value < low THEN low ELSE IF value > high THEN high ELSE value

\* C12: for a non-axiom claim the evidence support of the credibility run
\* is the mean of one signed contribution per distinct evidence id attached
\* to the claim (an attached evidence card counting once), clamped to the
\* claim's [evidence_min, evidence_max] when they are set and to [-1, 1]
\* otherwise; a claim with no evidence has support 0.
C12_EvidenceSupport ==
    Scored =>
        \A i \in 1..Len(units) :
            ~ units[i].is_axiom =>
                ScoreResult.evidence_support[units[i].id] =
                    IF units[i].evidence = << >> THEN 0
                    ELSE Within(MeanContribution(units[i]),
                                IF units[i].evidence_min = NoValue THEN 0 - Scale
                                ELSE units[i].evidence_min[1],
                                IF units[i].evidence_max = NoValue THEN Scale
                                ELSE units[i].evidence_max[1])

\* the same with every claim's bounds read as [-1, 1]
C12_EvidenceSupportInUnitRange ==
    Scored =>
        \A i \in 1..Len(units) :
            ~ units[i].is_axiom =>
                ScoreResult.evidence_support[units[i].id] =
                    Within(MeanContribution(units[i]), 0 - Scale, Scale)

\* a run on a claim with an attached card, repeated above by an item of
\* the same id, and an item of another id
C12_CardCountsOnce ==
    /\ Scored
    /\ \E i \in 1..Len(units) :
          /\ units[i].evidence_ids # << >>
          /\ Len(units[i].evidence) = MaxEvidence
          /\ Len(FirstItems(units[i].evidence)) < Len(units[i].evidence)
          /\ ScoreResult.evidence_support[units[i].id] # 0

\* the graph of the example: axiom claim A of score 1.0, claim B without
\* evidence, axiom warrant W of score 1.0, one OR-gated relation of the
\* given kind from A to B citing W
ExampleGraph(kind) ==
    /\ SeqRange(units) =
          {ArgumentUnit("c1", "Rain", <<Scale>>, TRUE, FALSE, << >>),
           ArgumentUnit("c2", "Wet", NoValue, FALSE, FALSE, << >>)}
    /\ DOMAIN warrants = {"w1"}
    /\ warrants["w1"] = Warrant("w1", <<Scale>>, TRUE, FALSE, << >>)
    /\ relations = <<Relation("c1", "c2", kind, <<"w1">>, "OR", << >>)>>
    /\ warrant_attacks = << >>

\* the declared score of an axiom, None read as 0.0, clamped to [-1, 1]
DeclaredScore(node) ==
    LET score == IF node.score = NoValue THEN 0 ELSE node.score[1]
    IN  IF score > Scale THEN Scale ELSE IF score < 0 - Scale THEN 0 - Scale ELSE score

C13_AxiomWithEvidence ==
    /\ Scored
    /\ \E w \in DOMAIN warrants :
          /\ warrants[w].is_axiom
          /\ warrants[w].evidence # << >>
          /\ warrants[w].score[1] > Scale

\* ------------------------------------------------------------- C14 .. C15
\* C14: after any sequence of ArgumentGraph mutator calls every relation's
\* src and dst are ids of units of the graph, every id in a relation's
\* warrant_ids is the id of a warrant of the graph, and every warrant
\* attack's src is a unit id and its warrant_id a warrant id.
C14_CrossReferenceIntegrity ==
    /\ \A i \in 1..Len(relations) :
          /\ relations[i].src \in unit_ids(SelfGraph)
          /\ relations[i].dst \in unit_ids(SelfGraph)
          /\ SeqRange(relations[i].warrant_ids) \subseteq DOMAIN warrants
    /\ \A i \in 1..Len(warrant_attacks) :
          /\ warrant_attacks[i].src \in unit_ids(SelfGraph)
          /\ warrant_attacks[i].warrant_id \in DOMAIN warrants

\* the part the mutators do keep: a warrant attack names a warrant of the
\* graph, and evidence is attached to units and warrants of the graph only
C14_WarrantAttacksNameWarrants ==
    \A i \in 1..Len(warrant_attacks) :
        warrant_attacks[i].warrant_id \in DOMAIN warrants

\* C15: add_claim without claim_id returns an id that no unit of the graph
\* has, add_warrant without warrant_id returns an id that no warrant of the
\* graph has, so each such call adds one unit or one warrant and overwrites
\* none; a warrant is stored under its own id.
C15_AllocatedIdsAreFresh ==
    [][/\ graph_out'.op = "add_claim" =>
             /\ graph_out'.returned \notin unit_ids(SelfGraph)
             /\ Len(units') = Len(units) + 1
       /\ graph_out'.op = "add_warrant" =>
             /\ graph_out'.returned \notin DOMAIN warrants
             /\ Cardinality(DOMAIN warrants') = Cardinality(DOMAIN warrants) + 1
       /\ \A w \in DOMAIN warrants' : warrants'[w].id = w]_vars

\* what does hold: the allocated claim id is fresh, also next to the ids
\* "c02" and "w1" of a caller's
C15_AllocatedClaimIdsAreFresh ==
    [][/\ graph_out'.op = "add_claim" =>
             /\ graph_out'.returned \notin unit_ids(SelfGraph)
             /\ Len(units') = Len(units) + 1
       /\ \A w \in DOMAIN warrants' : warrants'[w].id = w]_vars

\* ------------------------------------------------------------- C16 .. C18
Detected == GraphCalled("detect_patterns")

\* the matches of one pattern, in the order reported
MatchesOf(pattern_id) ==
    SelectSeq(graph_out.matches, LAMBDA m : m.pattern_id = pattern_id)

SupportPairs ==
    {<<relations[i].src, relations[i].dst>> :
        i \in {j \in 1..Len(relations) : relations[j].kind = "support"}}

SupportEnds == {p[1] : p \in SupportPairs} \cup {p[2] : p \in SupportPairs}

\* the directed cycles of the support-only subgraph: lists of distinct
\* claims, each supporting the next and the last the first
SupportCycles ==
    {cycle \in UNION {[1..k -> SupportEnds] : k \in 1..Cardinality(SupportEnds)} :
        /\ \A i \in 1..Len(cycle) : \A j \in 1..Len(cycle) :
              i # j => cycle[i] # cycle[j]
        /\ \A i \in 1..Len(cycle) :
              <<cycle[i], cycle[(i % Len(cycle)) + 1]>> \in SupportPairs}

\* the ids of the support relations joining consecutive claims of a cycle
CycleEdgeIds(cycle) ==
    {edge_id(i - 1) :
        i \in {j \in 1..Len(relations) :
                  /\ relations[j].kind = "support"
                  /\ \E k \in 1..Len(cycle) :
                        /\ relations[j].src = cycle[k]
                        /\ relations[j].dst = cycle[(k % Len(cycle)) + 1]}}

ReportsCycle(cycles) ==
    /\ cycles # {} =>
          \E k \in 1..Len(MatchesOf("circular_reasoning")) :
              LET match == MatchesOf("circular_reasoning")[k]
              IN  /\ match.action = "disable_edge"
                  /\ match.nodes \in cycles
                  /\ SeqRange(match.edges) = CycleEdgeIds(match.nodes)
    /\ cycles = {} => MatchesOf("circular_reasoning") = << >>

\* C16: whenever the support-only subgraph has a directed cycle, of any
\* length, a support relation with src = dst included, detect_patterns
\* reports a circular_reasoning match with action disable_edge whose nodes
\* are the claims of a support cycle and whose edges are the ids of the
\* support relations joining consecutive claims of it; when the subgraph is
\* acyclic no circular_reasoning match is reported.
C16_SupportCyclesReported == Detected => ReportsCycle(SupportCycles)

\* the same for the cycles through two claims or more
C16_LongerSupportCyclesReported ==
    Detected => ReportsCycle({cycle \in SupportCycles : Len(cycle) >= 2})

\* detect_patterns on a graph whose support relations form a cycle through
\* two claims
C16_TwoCycleDetected ==
    /\ Detected
    /\ \E cycle \in SupportCycles : Len(cycle) = 2
    /\ MatchesOf("circular_reasoning") # << >>

\* how many matches of a pattern have the given nodes and edges
Count(pattern_id, nodes, edges) ==
    Cardinality({k \in 1..Len(MatchesOf(pattern_id)) :
                    /\ MatchesOf(pattern_id)[k].nodes = nodes
                    /\ MatchesOf(pattern_id)[k].edges = edges})

\* the matches of a pattern are as many as the relations (or claims) it is
\* reported for
Total(pattern_id, reported) == Len(MatchesOf(pattern_id)) = Cardinality(reported)

SelfAttacks ==
    {i \in 1..Len(relations) :
        relations[i].kind = "attack" /\ relations[i].src = relations[i].dst}

WithoutWarrants == {i \in 1..Len(relations) : relations[i].warrant_ids = << >>}

WithoutSupport ==
    {i \in 1..Len(units) :
        ~ \E j \in 1..Len(relations) :
              relations[j].kind = "support" /\ relations[j].dst = units[i].id}

\* C17: detect_patterns reports exactly one self_attack match for each
\* attack relation with src = dst, exactly one unstated_warrant match for
\* each relation with an empty warrant_ids list and exactly one
\* unsupported_conclusion match for each claim of the graph that no support
\* relation targets, and none of the three in any other case; it does not
\* modify the graph.
C17_PerRelationAndPerClaimMatches ==
    /\ [](Detected =>
            /\ \A i \in SelfAttacks :
                  Count("self_attack", <<relations[i].src>>, <<edge_id(i - 1)>>) = 1
            /\ Total("self_attack", SelfAttacks)
            /\ \A i \in WithoutWarrants :
                  Count("unstated_warrant", <<relations[i].src, relations[i].dst>>,
                        <<edge_id(i - 1)>>) = 1
            /\ Total("unstated_warrant", WithoutWarrants)
            /\ \A i \in WithoutSupport :
                  Count("unsupported_conclusion", <<units[i].id>>, << >>) = 1
            /\ Total("unsupported_conclusion", WithoutSupport))
    /\ [][graph_out'.op = "detect_patterns" =>
             UNCHANGED <<units, warrants, relations, warrant_attacks, evidenceVars>>]_vars

\* detect_patterns on the graph of the example: claims A and B, a support
\* from A to B without warrants and an attack from A to A
C17_Witness ==
    /\ Detected
    /\ Len(units) = 2
    /\ Len(relations) = 2
    /\ SelfAttacks # {}
    /\ Cardinality(WithoutWarrants) = 2
    /\ Cardinality(WithoutSupport) = 1
    /\ \E i \in 1..Len(relations) : relations[i].kind = "support"

\* text.lower() with whitespace collapsed, for the texts of the claims
Normalised(text) ==
    IF text \in {"Rain", "rain ", "rain"} THEN "rain"
    ELSE IF text \in {"Wet", "wet"} THEN "wet" ELSE text

\* the claims of the graph that support t
Supporters(t) ==
    {relations[i].src :
        i \in {j \in 1..Len(relations) :
                  /\ relations[j].kind = "support"
                  /\ relations[j].dst = t
                  /\ relations[j].src \in unit_ids(SelfGraph)}}

\* the groups of two or more distinct supporters of t with one normalised
\* text
RedundantGroups(t) ==
    {group \in SUBSET Supporters(t) :
        /\ Cardinality(group) >= 2
        /\ \E s \in group :
              group = {x \in Supporters(t) :
                          Normalised(unit_of(SelfGraph, x).text)
                              = Normalised(unit_of(SelfGraph, s).text)}}

Targets == {relations[i].dst : i \in 1..Len(relations)}

\* C18: detect_patterns reports a redundancy match for a target claim t if
\* and only if at least two distinct source claims with the same
\* normalised text each support t; two support relations from one source
\* claim to t give no redundancy match by themselves.
C18_RedundancyNeedsDistinctSources ==
    Detected =>
        /\ \A t \in Targets : \A group \in RedundantGroups(t) :
              \E k \in 1..Len(MatchesOf("redundancy")) :
                  SeqRange(MatchesOf("redundancy")[k].nodes) = group \cup {t}
        /\ \A k \in 1..Len(MatchesOf("redundancy")) :
              \E t \in Targets : \E group \in RedundantGroups(t) :
                  SeqRange(MatchesOf("redundancy")[k].nodes) = group \cup {t}

\* the source lists the code groups by: one entry per support relation
SupportRelations(t, text) ==
    {i \in 1..Len(relations) :
        /\ relations[i].kind = "support"
        /\ relations[i].dst = t
        /\ relations[i].src \in unit_ids(SelfGraph)
        /\ Normalised(unit_of(SelfGraph, relations[i].src).text) = text}

\* what detect_patterns does report: a match for each target and text that
\* two or more support relations share, whether or not their sources differ
C18_RedundancyCountsRelations ==
    Detected =>
        /\ \A t \in Targets : \A text \in {"rain", "wet"} :
              Cardinality(SupportRelations(t, text)) >= 2 =>
                  \E k \in 1..Len(MatchesOf("redundancy")) :
                      SeqRange(MatchesOf("redundancy")[k].nodes) =
                          {relations[i].src : i \in SupportRelations(t, text)} \cup {t}
        /\ \A k \in 1..Len(MatchesOf("redundancy")) :
              \E t \in Targets : \E text \in {"rain", "wet"} :
                  /\ Cardinality(SupportRelations(t, text)) >= 2
                  /\ SeqRange(MatchesOf("redundancy")[k].nodes) =
                        {relations[i].src : i \in SupportRelations(t, text)} \cup {t}

\* detect_patterns on a graph where two distinct claims with one normalised
\* text support the same target, and on one where two claims with different
\* texts do
C18_DistinctSourcesDetected ==
    /\ Detected
    /\ \E t \in Targets : RedundantGroups(t) # {}
    /\ MatchesOf("redundancy") # << >>

C18_DifferentTextsPassed ==
    /\ Detected
    /\ \E t \in Targets : Cardinality(Supporters(t)) = 2
    /\ MatchesOf("redundancy") = << >>

\* ------------------------------------------------------------- C19 .. C20
Built == aba_out.op = "build_dispute_tree"

RECURSIVE Paths(_)
\* the positions of a tree: the list of child indices leading to each node
Paths(node) ==
    {<< >>} \cup UNION {{<<i>> \o path : path \in Paths(node.children[i])} :
                           i \in 1..Len(node.children)}

RECURSIVE NodeAt(_, _)
NodeAt(node, path) ==
    IF path = << >> THEN node ELSE NodeAt(node.children[path[1]], Tail(path))

TreeNode(path) == NodeAt(aba_out.tree, path)

Pair(path) == <<TreeNode(path).claim, TreeNode(path).role>>

ChildClaims(node) == [i \in 1..Len(node.children) |-> node.children[i].claim]

\* a list of names in sorted order holding exactly the members of a set
ListsExactly(list, members) ==
    /\ SeqRange(list) = members
    /\ \A i \in 1..Len(list) : \A j \in 1..Len(list) :
          i < j => StrLess(list[i], list[j])

\* the assumptions whose contrary is the claim; the sources of attacks, in
\* to_dung(), on the attackers of the claim
ContraryIs(claim) == {x \in DOMAIN contraries : contraries[x] = claim}

AttackersOfAttackers(claim) ==
    LET reduced == to_dung(DefaultSetSize).attacks
    IN  {d[1] : d \in {e \in reduced :
                          \E f \in reduced : f[2] = claim /\ f[1] = e[2]}}

FullChildren(node) ==
    ListsExactly(ChildClaims(node),
                 IF node.role = "pro" THEN ContraryIs(node.claim)
                 ELSE AttackersOfAttackers(node.claim))

IsProperPrefix(p, q) == Len(p) < Len(q) /\ SubSeq(q, 1, Len(p)) = p

C20_ExpandedUnderEachAncestor ==
    Built =>
        \A path \in Paths(aba_out.tree) :
            Len(path) < aba_out.max_depth =>
                IF \E above \in Paths(aba_out.tree) :
                       IsProperPrefix(above, path) /\ Pair(above) = Pair(path)
                THEN TreeNode(path).children = << >>
                ELSE FullChildren(TreeNode(path))

RECURSIVE PathBefore(_, _)
\* p is visited before q in the order the tree is built (parent first,
\* children left to right)
PathBefore(p, q) ==
    IF p = << >> THEN q # << >>
    ELSE IF q = << >> THEN FALSE
    ELSE IF p[1] # q[1] THEN p[1] < q[1]
    ELSE PathBefore(Tail(p), Tail(q))

\* what build_dispute_tree does: a pair is expanded at the first position
\* of depth below max_depth where the construction meets it, and nowhere
\* else
C20_ExpandedOncePerTree ==
    Built =>
        \A path \in Paths(aba_out.tree) :
            Len(path) < aba_out.max_depth =>
                IF \E earlier \in Paths(aba_out.tree) :
                       /\ PathBefore(earlier, path)
                       /\ Len(earlier) < aba_out.max_depth
                       /\ Pair(earlier) = Pair(path)
                THEN TreeNode(path).children = << >>
                ELSE FullChildren(TreeNode(path))
\* ------------------------------------------------------------- C21, C29
\* the graph diagnostics() was run on, as a set of nodes and a set of edges
Diagnosed == graph_out # NoCall /\ graph_out.op = "diagnostics"

EdgeSet == SeqRange(diagnostics_edges(SelfGraph))

NodeSet == SeqRange(diagnostics_nodes(SelfGraph)) \cup {e[1] : e \in EdgeSet}
               \cup {e[2] : e \in EdgeSet}

\* the edges a walk along the list, and from its last node to its first, uses
CycleEdges(cycle) ==
    {<<cycle[i], cycle[(i % Len(cycle)) + 1]>> : i \in 1..Len(cycle)}

IsSmallestFirst(cycle) == \A i \in 2..Len(cycle) : StrLess(cycle[1], cycle[i])

\* the lists of distinct nodes whose walk uses exactly the edges of the graph
SimpleCyclesOfGraph ==
    {cycle \in UNION {SetToSeqs(N) : N \in SUBSET NodeSet \ {{}}} :
        CycleEdges(cycle) = EdgeSet}

\* C21: every cycle find_cycles returns is a directed cycle of the graph and
\* starts with its smallest node, no cycle is returned twice and the list is
\* sorted; when the edges of the graph are exactly the edges of one simple
\* directed cycle, the result is that cycle alone, smallest node first
C21_CyclesCanonical ==
    Diagnosed =>
        LET cycles == graph_out.cycles
        IN  /\ \A i \in 1..Len(cycles) :
                  /\ cycles[i] # << >>
                  /\ CycleEdges(cycles[i]) \subseteq EdgeSet
                  /\ IsSmallestFirst(cycles[i])
            /\ \A i \in 1..Len(cycles) : \A j \in 1..Len(cycles) :
                  i < j => TupleLess(cycles[i], cycles[j])
            /\ SimpleCyclesOfGraph # {} =>
                  /\ Len(cycles) = 1
                  /\ cycles[1] \in SimpleCyclesOfGraph
            /\ graph_out.cycle_count = Len(cycles)

\* the cycle c1 -> c2 -> c3 -> c1 given with c3 as first node and the edge
\* out of c3 first, so that the search starts from c3
C21_Witness ==
    /\ Diagnosed
    /\ unit_keys(units) = <<"c3", "c2", "c1">>
    /\ diagnostics_edges(SelfGraph) = <<<<"c3", "c1">>, <<"c1", "c2">>, <<"c2", "c3">>>>
    /\ graph_out.cycles = <<<<"c1", "c2", "c3">>>>

\* C29: the cycles diagnostics() reports are those find_cycles returns for
\* the same nodes and the same edges given in sorted order, so that no
\* order of add_claim and add_relation calls changes them
C29_CyclesIndependentOfOrder ==
    Diagnosed =>
        /\ graph_out.cycles =
              find_cycles(sorted(SeqRange(diagnostics_nodes(SelfGraph))),
                          sorted_tuples(EdgeSet))
        /\ graph_out.cycle_count =
              Len(find_cycles(sorted(SeqRange(diagnostics_nodes(SelfGraph))),
                              sorted_tuples(EdgeSet)))

\* the count alone
C29_CycleCountIndependentOfOrder ==
    Diagnosed =>
        graph_out.cycle_count =
            Len(find_cycles(sorted(SeqRange(diagnostics_nodes(SelfGraph))),
                            sorted_tuples(EdgeSet)))

\* ------------------------------------------------------------- C22
\* the state right after restored = ArgumentGraph.from_dict(graph.to_dict())
JustRestored == graph_out # NoCall /\ graph_out.op = "from_dict"

\* C22: the graph restored from the export of a graph built through the
\* mutators equals that graph field by field, relations in the same order,
\* and exporting it again gives the same payload
C22_RoundTrip ==
    JustRestored =>
        /\ as_read(restored[1]) = as_read(SelfGraph)
        /\ to_dict(restored[1], "restored") = graph_out.payload
        /\ graph_out.payload = to_dict(SelfGraph, "graph")
        /\ \A i \in 1..Len(relations) :
              with_metadata(restored[1].relations[i]) = relations[i]

\* a graph with an axiom claim, a claim with a cited text span and an
\* attached evidence card, an axiom warrant under attack, a supporting
\* document, two relations and a bundle of both
C22_Witness ==
    /\ JustRestored
    /\ Len(units) = 2
    /\ \E i \in 1..2 : units[i].is_axiom
    /\ \E i \in 1..2 : Len(units[i].evidence) = 2 /\ units[i].evidence_ids = <<"ev1">>
    /\ "w1" \in DOMAIN warrants
    /\ warrant_attacks # << >>
    /\ "d1" \in DOMAIN supporting_documents
    /\ "ev1" \in DOMAIN evidence_cards
    /\ Len(relations) = 2 /\ relations[1] # relations[2]
    /\ "arg_1" \in DOMAIN argument_bundles
    /\ Len(argument_bundles["arg_1"].relations) = 2
    /\ Len(restored[1].argument_bundles["arg_1"].relations) = 2

\* ------------------------------------------------------------- C24
\* a step taken on the restored graph, and a step taken on the first graph
\* while the restored one exists
OnRestored ==
    \/ \E relation \in RoundTripRelationPool : restored_add_relation(relation)
    \/ \E matches \in CopyMatchPool : restored_apply_given(matches)

OnGraph == restored # << >> /\ \E matches \in CopyMatchPool : apply_given(matches)

\* C24: a mutation of one of the two graphs changes nothing that can be
\* read from the other one: a step on the restored graph leaves every field
\* of the first graph as it was, and a step on the first graph leaves the
\* restored graph, as its fields read, as it was
C24_NoSharedState ==
    [][/\ OnRestored =>
            UNCHANGED <<units, warrants, relations, warrant_attacks, evidenceVars,
                        argument_bundles>>
       /\ OnGraph => as_read(restored[1])' = as_read(restored[1])]_vars

\* what is shared is the metadata dict of each exported relation and nothing
\* else: a step on the restored graph changes at most the metadata of
\* relations of the first graph, and a step on the first graph at most the
\* metadata of relations of the restored graph
WithoutMetadata(rels) == [i \in 1..Len(rels) |-> [rels[i] EXCEPT !.metadata = << >>]]

C24_OnlyMetadataShared ==
    [][/\ OnRestored =>
            /\ UNCHANGED <<units, warrants, warrant_attacks, evidenceVars,
                           argument_bundles>>
            /\ WithoutMetadata(relations') = WithoutMetadata(relations)
       /\ OnGraph =>
            /\ restored' = restored
            /\ [as_read(restored[1])' EXCEPT !.relations = << >>, !.argument_bundles = << >>]
                  = [as_read(restored[1]) EXCEPT !.relations = << >>,
                                                 !.argument_bundles = << >>]
            /\ WithoutMetadata(as_read(restored[1]).relations')
                  = WithoutMetadata(as_read(restored[1]).relations)]_vars

\* the restored graph was handed a disable_edge match and the first graph
\* now carries the mark
C24_MarkOnFirstGraph ==
    /\ restored # << >>
    /\ graph_out # NoCall /\ graph_out.op = "apply_gate_actions"
    /\ relations # << >>
    /\ "gate_disabled" \in DOMAIN relations[1].metadata
    /\ restored[1].relations[1].gate_mode = relations[1].gate_mode

\* ------------------------------------------------------------- C23
\* the call ended with a not-found error whose message names the id
NotFound(raised, prefix, id) ==
    /\ raised # << >>
    /\ raised[1].exception = "KeyError"
    /\ raised[1].message = prefix \o id

GraphFields ==
    <<units, warrants, relations, warrant_attacks, evidenceVars, copyVars>>

\* C23: attach_evidence and attach_evidence_card with an unknown unit or an
\* unknown card, attach_evidence_to_warrant with an unknown warrant, and
\* add_warrant_attack with an unknown attacking unit or an unknown target
\* warrant end with a not-found error that names the missing id, and the
\* graph is as it was before the call
C23_ReferenceErrors ==
    [][/\ \A attack \in WarrantAttackPool :
            /\ add_warrant_attack(attack.src, attack.warrant_id)
            /\ \/ attack.src \notin unit_ids(SelfGraph)
               \/ attack.warrant_id \notin DOMAIN warrants
            => /\ \/ NotFound(add_warrant_attack_raises(attack.src, attack.warrant_id),
                              "Unknown unit id: ", attack.src)
                  \/ NotFound(add_warrant_attack_raises(attack.src, attack.warrant_id),
                              "Unknown warrant id: ", attack.warrant_id)
               /\ UNCHANGED GraphFields
       /\ attach_evidence("c1", "ev2", "supports", NoValue)
             /\ "c1" \notin unit_ids(SelfGraph)
            => /\ NotFound(attach_evidence_raises("c1"), "Unknown unit id: ", "c1")
               /\ UNCHANGED GraphFields
       /\ attach_evidence_to_warrant("w1", "ev2", "supports", NoValue)
             /\ "w1" \notin DOMAIN warrants
            => /\ NotFound(attach_evidence_to_warrant_raises("w1"),
                           "Unknown warrant id: ", "w1")
               /\ UNCHANGED GraphFields
       /\ attach_evidence_card("c1", "ev1", "supports")
             /\ ("c1" \notin unit_ids(SelfGraph) \/ "ev1" \notin DOMAIN evidence_cards)
            => /\ \/ NotFound(attach_evidence_card_raises("c1", "ev1"),
                              "Unknown unit id: ", "c1")
                  \/ NotFound(attach_evidence_card_raises("c1", "ev1"),
                              "Unknown evidence card id: ", "ev1")
               /\ UNCHANGED GraphFields]_vars

\* the same without the attacking unit of add_warrant_attack, which is the
\* one reference that is not looked up
C23_ReferenceErrorsButAttackSource ==
    [][/\ \A attack \in WarrantAttackPool :
            /\ add_warrant_attack(attack.src, attack.warrant_id)
            /\ attack.warrant_id \notin DOMAIN warrants
            => /\ NotFound(add_warrant_attack_raises(attack.src, attack.warrant_id),
                           "Unknown warrant id: ", attack.warrant_id)
               /\ UNCHANGED GraphFields
       /\ attach_evidence("c1", "ev2", "supports", NoValue)
             /\ "c1" \notin unit_ids(SelfGraph)
            => /\ NotFound(attach_evidence_raises("c1"), "Unknown unit id: ", "c1")
               /\ UNCHANGED GraphFields
       /\ attach_evidence_to_warrant("w1", "ev2", "supports", NoValue)
             /\ "w1" \notin DOMAIN warrants
            => /\ NotFound(attach_evidence_to_warrant_raises("w1"),
                           "Unknown warrant id: ", "w1")
               /\ UNCHANGED GraphFields
       /\ attach_evidence_card("c1", "ev1", "supports")
             /\ ("c1" \notin unit_ids(SelfGraph) \/ "ev1" \notin DOMAIN evidence_cards)
            => /\ \/ NotFound(attach_evidence_card_raises("c1", "ev1"),
                              "Unknown unit id: ", "c1")
                  \/ NotFound(attach_evidence_card_raises("c1", "ev1"),
                              "Unknown evidence card id: ", "ev1")
               /\ UNCHANGED GraphFields]_vars

\* a warrant attack by a claim the graph does not hold
C23_AttackByUnknownUnit ==
    \E i \in 1..Len(warrant_attacks) : warrant_attacks[i].src \notin unit_ids(SelfGraph)

\* ------------------------------------------------------------------- C25
Validated == graph_out # NoCall /\ graph_out.op = "loads"

KeyIsNotId(payload) ==
    \/ \E i \in 1..Len(payload.units) : payload.units[i][2].id # payload.units[i][1]
    \/ \E field \in {"warrants", "evidence_cards", "supporting_documents",
                     "argument_bundles"} :
          \E key \in DOMAIN payload[field] : payload[field][key].id # key

UnitKeys(payload) == {payload.units[i][1] : i \in 1..Len(payload.units)}

RelationEndUnknown(payload) ==
    \E i \in 1..Len(payload.relations) :
        \/ payload.relations[i].src \notin UnitKeys(payload)
        \/ payload.relations[i].dst \notin UnitKeys(payload)

RelationWarrantUnknown(payload) ==
    \E i \in 1..Len(payload.relations) :
        \E warrant_id \in SeqRange(DictGet(payload.relations[i], "warrant_ids", << >>)) :
            warrant_id \notin DOMAIN payload.warrants

\* every id the graph's objects name is the id of an object of the graph
ReferencesValid ==
    /\ \A i \in 1..Len(relations) :
          /\ relations[i].src \in {units[k].id : k \in 1..Len(units)}
          /\ relations[i].dst \in {units[k].id : k \in 1..Len(units)}
          /\ SeqRange(relations[i].warrant_ids) \subseteq DOMAIN warrants
    /\ \A i \in 1..Len(warrant_attacks) :
          /\ warrant_attacks[i].src \in {units[k].id : k \in 1..Len(units)}
          /\ warrant_attacks[i].warrant_id \in DOMAIN warrants
    /\ \A i \in 1..Len(units) : SeqRange(units[i].evidence_ids) \subseteq DOMAIN evidence_cards
    /\ \A id \in DOMAIN evidence_cards :
          evidence_cards[id].supporting_doc_id \in DOMAIN supporting_documents
    /\ \A id \in DOMAIN argument_bundles :
          SeqRange(argument_bundles[id].units) \subseteq {units[k].id : k \in 1..Len(units)}

\* C25: validate_graph_dict returns errors, and loads(validate=True) raises,
\* for a payload with an entity stored under a key that is not its id, with
\* a relation whose src or dst is no unit key, or with a relation naming a
\* warrant id that is no warrant key (also when the payload has no warrants);
\* it returns [] for the to_dict() of a graph whose references are all valid.
C25_ValidateRejects ==
    Validated =>
        /\ (\/ KeyIsNotId(graph_out.payload)
            \/ RelationEndUnknown(graph_out.payload)
            \/ RelationWarrantUnknown(graph_out.payload))
              => graph_out.errors # << >> /\ graph_out.raised
        /\ (graph_out.tamper = "none" /\ ReferencesValid)
              => graph_out.errors = << >> /\ ~ graph_out.raised

\* what the code does: an unknown warrant id of a relation is reported only
\* when the payload defines at least one warrant
C25_ValidateRejectsWithWarrants ==
    Validated =>
        /\ (\/ KeyIsNotId(graph_out.payload)
            \/ RelationEndUnknown(graph_out.payload)
            \/ (RelationWarrantUnknown(graph_out.payload)
                /\ has_items(graph_out.payload.warrants)))
              => graph_out.errors # << >> /\ graph_out.raised
        /\ (graph_out.tamper = "none" /\ ReferencesValid)
              => graph_out.errors = << >> /\ ~ graph_out.raised

\* a relation names warrant w1, the payload has no warrants, nothing is reported
C25_UnknownWarrantAccepted ==
    /\ Validated
    /\ RelationWarrantUnknown(graph_out.payload)
    /\ ~ has_items(graph_out.payload.warrants)
    /\ graph_out.errors = << >>

C25_KeyRejected ==
    Validated /\ KeyIsNotId(graph_out.payload) /\ graph_out.raised

C25_ValidAccepted ==
    /\ Validated /\ graph_out.tamper = "none" /\ ReferencesValid
    /\ Len(relations) > 0 /\ has_items(warrants) /\ graph_out.errors = << >>

\* ------------------------------------------------------------------- C26
\* the same arguments and attacks in a framework whose set iterates as `order`
Reordered(order) == AF(arguments, attacks, order)

ExtensionLists(af) ==
    <<admissible_sets(af), complete_extensions(af), preferred_extensions(af),
      stable_extensions(af), extensions(af, "preferred").value,
      extensions(af, "stable").value, extensions(af, "complete").value,
      extensions(af, "grounded").value>>

\* C26: admissible_sets, complete_extensions, preferred_extensions,
\* stable_extensions and extensions(name) return the same list, element by
\* element, for every iteration order of the same argument set.
C26_ListsIndependentOfOrder ==
    Observed =>
        \A order \in SetToSeqs(arguments) :
            ExtensionLists(Reordered(order)) = ExtensionLists(SelfAF)

\* what the code gives: the same extensions whatever the order, as sets
C26_SameExtensionsAsSets ==
    Observed =>
        \A order \in SetToSeqs(arguments) :
            \A i \in 1..Len(ExtensionLists(SelfAF)) :
                SeqRange(ExtensionLists(Reordered(order))[i])
                    = SeqRange(ExtensionLists(SelfAF)[i])

\* a -> b, b -> a with the set iterating as b, a: the singletons come as {b}, {a}
C26_ListFollowsIteration ==
    /\ Observed /\ IsMutualAB
    /\ arg_iter = <<"b", "a">>
    /\ admissible_sets(SelfAF) = <<{}, {"b"}, {"a"}>>
    /\ admissible_sets(SortedAF) = <<{}, {"a"}, {"b"}>>

\* ------------------------------------------------------------------- C27
\* the rounds of the for-loop the run went through
Rounds == Len(ScoreResult.max_changes)

InitialScores(evidence_support) ==
    [id \in DOMAIN evidence_support |-> _sigmoid(mul(Scale, evidence_support[id]))]

\* C27: compute_warrant_gated_scores ends after at most max_iterations
\* rounds; claim_iterations and warrant_iterations have the same length,
\* rounds + 1, and start with the initial scores; the final scores are the
\* last snapshots; the loop ends before max_iterations rounds only when the
\* largest absolute change of a round is below epsilon; with max_iterations
\* = 0 the final scores are the initial scores.
C27_IterationsAndTermination ==
    Scored =>
        LET cfg == WarrantGatedConfig(graph_out.max_iterations, graph_out.gate_required)
            claim_snapshots == ScoreResult.claim_iterations
            warrant_snapshots == ScoreResult.warrant_iterations
        IN  /\ Rounds <= cfg.max_iterations
            /\ Len(claim_snapshots) = Rounds + 1
            /\ Len(warrant_snapshots) = Rounds + 1
            /\ claim_snapshots[1] = InitialScores(ScoreResult.evidence_support)
            /\ warrant_snapshots[1] = InitialScores(ScoreResult.warrant_evidence_support)
            /\ ScoreResult.final_claim_scores = claim_snapshots[Len(claim_snapshots)]
            /\ ScoreResult.final_warrant_scores = warrant_snapshots[Len(warrant_snapshots)]
            /\ Rounds < cfg.max_iterations =>
                  ScoreResult.max_changes[Rounds] < cfg.epsilon
            /\ cfg.max_iterations = 0 =>
                  /\ ScoreResult.final_claim_scores = claim_snapshots[1]
                  /\ ScoreResult.final_warrant_scores = warrant_snapshots[1]

\* a run that stops after its first round, one that is cut off by
\* max_iterations while the scores still move, one with no round at all
C27_Witness ==
    /\ Scored
    /\ graph_out.max_iterations >= 1
    /\ Rounds = graph_out.max_iterations
    /\ ScoreResult.max_changes[Rounds] >= 1
    /\ ScoreResult.final_claim_scores # ScoreResult.claim_iterations[1]

C27_StopsEarly ==
    /\ Scored
    /\ Len(relations) > 0
    /\ Rounds < graph_out.max_iterations
    /\ ScoreResult.max_changes[Rounds] = 0

C27_NoRound ==
    /\ Scored /\ graph_out.max_iterations = 0 /\ Len(relations) > 0
    /\ ScoreResult.claim_iterations = <<ScoreResult.final_claim_scores>>

\* ------------------------------------------------------------------- C28
\* contrary(x) = y and contrary(y) = x for two assumptions x # y
CyclicContraries ==
    \E x \in DOMAIN contraries : \E y \in DOMAIN contraries :
        x # y /\ contraries[x] = y /\ contraries[y] = x

\* the pair at `path` was met before, at a position where pairs are expanded
ExpandedEarlier(path) ==
    \E earlier \in Paths(aba_out.tree) :
        /\ PathBefore(earlier, path)
        /\ Len(earlier) < aba_out.max_depth
        /\ Pair(earlier) = Pair(path)

\* C28: build_dispute_tree returns, for every framework (cyclic contraries
\* included) and every max_depth >= 0, a finite tree: every node is at depth
\* <= max_depth, a node at depth max_depth has no children, a node whose
\* (claim, role) pair was expanded earlier has no children, and with
\* max_depth = 0 the tree is the root alone.
C28_TreeIsBounded ==
    Built =>
        /\ \A path \in Paths(aba_out.tree) :
              /\ Len(path) <= aba_out.max_depth
              /\ Len(path) = aba_out.max_depth => TreeNode(path).children = << >>
              /\ ExpandedEarlier(path) => TreeNode(path).children = << >>
        /\ aba_out.max_depth = 0 =>
              aba_out.tree = DisputeTreeNode(aba_out.root, "pro", << >>)

\* a framework with cyclic contraries whose tree reaches max_depth and
\* holds a pair that is cut off although it has attackers or defenders
C28_Witness ==
    /\ Built
    /\ CyclicContraries
    /\ aba_out.max_depth >= 3
    /\ \E path \in Paths(aba_out.tree) : Len(path) = aba_out.max_depth
    /\ \E path \in Paths(aba_out.tree) :
          /\ Len(path) < aba_out.max_depth
          /\ ExpandedEarlier(path)
          /\ \E earlier \in Paths(aba_out.tree) :
                Pair(earlier) = Pair(path) /\ TreeNode(earlier).children # << >>

\* max_depth = 0 for a root that has attackers
C28_RootAlone ==
    /\ Built
    /\ aba_out.max_depth = 0
    /\ ContraryIs(aba_out.root) # {}
    /\ aba_out.tree.children = << >>

\* ------------------------------------------------------------------- C30
Translated == aba_out # NoCall /\ aba_out.op = "to_dung"

\* the nodes that stand for a set of two or more assumptions: the sources
\* of the attacks such a set makes
CompositeNodes ==
    LET assumption_sets == _assumption_sets(assumptions, DefaultSetSize)
    IN  {_format_assumption_set(assumption_sets[i]) :
            i \in {j \in 1..Len(assumption_sets) :
                      /\ Len(assumption_sets[j]) >= 2
                      /\ \E target \in DOMAIN contraries :
                            contraries[target]
                                \in _derive(rules, SeqRange(assumption_sets[j]))}}

AttackedByComposite ==
    {t \in assumptions : \E n \in CompositeNodes : <<n, t>> \in attacks}

InSomeExtension(arg) ==
    \/ \E i \in 1..Len(admissible_sets(SortedAF)) : arg \in admissible_sets(SortedAF)[i]
    \/ \E name \in {"grounded", "preferred", "stable", "complete"} :
          \E i \in 1..Len(extensions(SortedAF, name).value) :
              arg \in extensions(SortedAF, name).value[i]

\* C30: in the framework to_dung() returns no composite node is the target
\* of an attack; every composite attacker is in the grounded extension and
\* is labelled "in"; an assumption attacked by a composite node is in no
\* admissible set and in no extension of any semantics.
C30_CompositeNeverAttacked ==
    (Translated /\ lab_pc \in {"idle", "done"}) =>
        /\ \A n \in CompositeNodes :
              /\ ~ \E p \in attacks : p[2] = n
              /\ n \in grounded_extension(SortedAF)
              /\ lab_pc = "done" => labels[n] = "in"
        /\ \A t \in AttackedByComposite : ~ InSomeExtension(t)

\* what holds: the same when every key of `contraries` is an assumption
C30_CompositeNeverAttackedAmongAssumptions ==
    (Translated /\ lab_pc \in {"idle", "done"} /\ DOMAIN contraries \subseteq assumptions) =>
        /\ \A n \in CompositeNodes :
              /\ ~ \E p \in attacks : p[2] = n
              /\ n \in grounded_extension(SortedAF)
              /\ lab_pc = "done" => labels[n] = "in"
        /\ \A t \in AttackedByComposite : ~ InSomeExtension(t)

\* {a&b} attacks b while its member a is attacked by the unattacked c
C30_MemberAttacked ==
    /\ Translated /\ lab_pc = "done"
    /\ DOMAIN contraries \subseteq assumptions
    /\ <<"{a&b}", "b">> \in attacks
    /\ <<"c", "a">> \in attacks
    /\ ~ \E p \in attacks : p[2] = "c"
    /\ labels["{a&b}"] = "in"

\* contraries holds the key "{a&b}": the composite node is attacked
C30_CompositeAttacked ==
    /\ Translated /\ lab_pc = "done"
    /\ "{a&b}" \in CompositeNodes
    /\ \E p \in attacks : p[2] = "{a&b}"
    /\ labels["{a&b}"] # "in"

====
